---- MODULE Spec2Model ----
(***************************************************************************)
(* A model of blueprint-linter: the case normalizer, the structural        *)
(* validator, the contract naming-consistency check and the CLI action     *)
(* that discovers projects, runs the per-project checks and exits.         *)
(*                                                                         *)
(* Strings are sequences of one-character strings.  A file is kept as the  *)
(* result of path.parse: its directory (a sequence of names), its stem     *)
(* and its extension.  The two test markers ".spec" and ".test" are single *)
(* elements that occur only as the last element of a stem.                 *)
(***************************************************************************)
EXTENDS Integers, Sequences, FiniteSets, TLC

VARIABLES
    unit,               \* which entry point this behaviour exercises
    uIn,                \* the argument of the function under test
    uOut,               \* the sequence of its results so far
    opts,               \* CLI options: [json, dirs]
    world,              \* the filesystem below and around the scan path
    pc,                 \* position of the CLI action
    allErrors,          \* index.ts: allErrors
    overallSuccess,     \* index.ts: overallSuccess
    validProjectRoots,  \* index.ts: validProjectRoots
    pending,            \* potentialProjectDirs not yet visited by the loop
    checkedDirs,        \* index.ts: checkedDirs
    projIndex,          \* position of the loop over validProjectRoots
    ran,                \* <<check, projectRoot>> pairs that were called
    output,             \* what was written to stdout/stderr
    exitCode            \* argument of process.exit, or -1 while running

vars == <<unit, uIn, uOut, opts, world, pc, allErrors, overallSuccess,
          validProjectRoots, pending, checkedDirs, projIndex, ran, output, exitCode>>

mainVars == <<opts, world, pc, allErrors, overallSuccess, validProjectRoots,
              pending, checkedDirs, projIndex, ran, output, exitCode>>

----------------------------------------------------------------------------
(* Bounds *)

MaxLen == 4
MaxStem == 3

----------------------------------------------------------------------------
(* Characters *)

LowerChars == {"a", "b"}
UpperChars == {"A", "B"}
DigitChars == {"1"}
AlnumChars == LowerChars \cup UpperChars \cup DigitChars
NameChars == AlnumChars \cup {"_", "-", "."}
TestMarkers == {".spec", ".test"}

IsUpper(c) == c \in UpperChars
IsLower(c) == c \in LowerChars
IsLowerOrDigit(c) == c \in LowerChars \cup DigitChars

\* Strings over alphabet A of length at most n.
StringsUpTo(A, n) == UNION {[1..k -> A] : k \in 0..n}

CharToUpperCase(c) ==
    CASE c = "a" -> "A"
      [] c = "b" -> "B"
      [] OTHER -> c

CharToLowerCase(c) ==
    CASE c = "A" -> "a"
      [] c = "B" -> "b"
      [] OTHER -> c

ToUpperCase(s) == [i \in 1..Len(s) |-> CharToUpperCase(s[i])]

\* String.prototype.toLowerCase
ToLowerCase(s) == [i \in 1..Len(s) |-> CharToLowerCase(s[i])]

----------------------------------------------------------------------------
(* normalizeName.ts *)

\* s.replace(/([a-z0-9])([A-Z])/g, '$1_$2') scanning from position i:
\* matches are taken left to right and do not overlap.
RECURSIVE ReplaceLowerUpper(_, _)
ReplaceLowerUpper(s, i) ==
    IF i > Len(s) THEN <<>>
    ELSE IF i + 1 <= Len(s) /\ IsLowerOrDigit(s[i]) /\ IsUpper(s[i + 1])
         THEN <<s[i], "_", s[i + 1]>> \o ReplaceLowerUpper(s, i + 2)
         ELSE <<s[i]>> \o ReplaceLowerUpper(s, i + 1)

\* an underscore between any two adjacent capitals
RECURSIVE ReplaceEveryCapital(_, _)
ReplaceEveryCapital(s, i) ==
    IF i > Len(s) THEN <<>>
    ELSE IF i + 1 <= Len(s) /\ IsUpper(s[i]) /\ IsUpper(s[i + 1])
         THEN <<s[i], "_">> \o ReplaceEveryCapital(s, i + 1)
         ELSE <<s[i]>> \o ReplaceEveryCapital(s, i + 1)

\* s.replace(/([A-Z])([A-Z][a-z])/g, '$1_$2') scanning from position i.
RECURSIVE ReplaceAcronym(_, _)
ReplaceAcronym(s, i) ==
    IF i > Len(s) THEN <<>>
    ELSE IF i + 2 <= Len(s) /\ IsUpper(s[i]) /\ IsUpper(s[i + 1]) /\ IsLower(s[i + 2])
         THEN <<s[i], "_", s[i + 1], s[i + 2]>> \o ReplaceAcronym(s, i + 3)
         ELSE <<s[i]>> \o ReplaceAcronym(s, i + 1)

normalizeToSnakeCase(str) ==
    IF str = <<>> THEN <<>>
    ELSE ToLowerCase(ReplaceAcronym(ReplaceLowerUpper(str, 1), 1))

----------------------------------------------------------------------------
(* Paths.  A path is a record: dir, the sequence of its directory segments *)
(* (an absolute path starts with the segment "/"), and the stem and the    *)
(* extension of its last component as path.parse gives them.  A path that  *)
(* names a directory has the empty stem and the empty extension.           *)
(* Directories of the scanned tree are named by their segments relative to *)
(* the scan path (the scan path itself is <<>>).                           *)

ScanPath == <<"/", "ws", "scan">>

Abs(rel) == ScanPath \o rel

IsPrefix(p, q) == Len(p) <= Len(q) /\ SubSeq(q, 1, Len(p)) = p

DirPath(d) == [dir |-> d, stem |-> <<>>, ext |-> ""]

FilePath(d, stem, ext) == [dir |-> d, stem |-> stem, ext |-> ext]

\* the segments of `to` below `from`
Below(from, to) == SubSeq(to, Len(from) + 1, Len(to))

\* path.relative(from, p) || '.' for a path p at or below the directory `from`
RelativeOrDot(from, p) ==
    IF p.dir = from /\ p.stem = <<>> /\ p.ext = ""
    THEN DirPath(<<".">>)
    ELSE [p EXCEPT !.dir = Below(from, p.dir)]

\* path.relative(from, p) for a path p at or below the directory `from`
Relative(from, p) == [p EXCEPT !.dir = Below(from, p.dir)]

\* path.normalize of joined segments: '.' segments and the separators that
\* an embedded absolute path brings are dropped
RECURSIVE DropDots(_)
DropDots(segs) ==
    IF segs = <<>> THEN <<>>
    ELSE IF Head(segs) \in {".", "/"} THEN DropDots(Tail(segs))
    ELSE <<Head(segs)>> \o DropDots(Tail(segs))

\* path.join(a, p) for a relative directory a
Join(a, p) ==
    LET segs == DropDots(a \o p.dir)
    IN  IF segs = <<>> /\ p.stem = <<>> /\ p.ext = ""
        THEN DirPath(<<".">>)
        ELSE [p EXCEPT !.dir = segs]

----------------------------------------------------------------------------
(* types.ts *)

StructureValidation == "STRUCTURE_VALIDATION"
BrokenProject == "BROKEN_PROJECT"
NamingConsistency == "NAMING_CONSISTENCY"
MissingContract == "MISSING_CONTRACT"

\* LinterError.  The message is kept as the constant pieces of its template
\* literal; the paths interpolated into it are kept apart, in order.
LinterError(t, f, m, p) == [type |-> t, file |-> f, message |-> m, paths |-> p]

----------------------------------------------------------------------------
(* initializationCheck.ts *)

REQUIRED_DEP == "@ton-ai-core/blueprint"
REQUIRED_CONFIG == "blueprint.config.ts"
REQUIRED_NODE_MODULES_DIR == <<"node_modules", "@ton-ai-core", "blueprint">>

\* What a dependency map holds under the key REQUIRED_DEP: no such key, the
\* empty version string, or a non-empty version string.
DepValues == {"absent", "empty", "version"}

\* What validateProjectStructure reads of a directory:
\*   manifest  "none" (no package.json), "bad" (readFileSync or JSON.parse
\*             throws), "ok" (parses to an object)
\*   dep, devDep  the entry of REQUIRED_DEP in dependencies / devDependencies
\*   config    blueprint.config.ts exists
\*   module    node_modules/@ton-ai-core/blueprint exists
StructureFacts ==
    [manifest : {"none", "bad"}, dep : {"absent"}, devDep : {"absent"},
     config : BOOLEAN, module : BOOLEAN]
    \cup
    [manifest : {"ok"}, dep : DepValues, devDep : DepValues,
     config : BOOLEAN, module : BOOLEAN]

\* { ...(dependencies || {}), ...(devDependencies || {}) }[REQUIRED_DEP]:
\* a key of devDependencies overrides the same key of dependencies
AllDepsEntry(f) == IF f.devDep # "absent" THEN f.devDep ELSE f.dep

\* JavaScript truthiness of that entry (undefined and '' are falsy)
Truthy(v) == v = "version"

ParseError(projectRoot) ==
    LinterError(StructureValidation, FilePath(projectRoot, <<"package">>, ".json"),
                <<"Error reading or parsing: ", "error.message">>, <<>>)

KeyDependencyError(projectRoot) ==
    LinterError(StructureValidation, FilePath(projectRoot, <<"package">>, ".json"),
                <<"Key dependency '", REQUIRED_DEP, "' not found.">>, <<>>)

ConfigError(projectRoot) ==
    LinterError(StructureValidation, DirPath(projectRoot),
                <<"Configuration file '", REQUIRED_CONFIG, "' not found.">>, <<>>)

ModuleError(projectRoot) ==
    LinterError(StructureValidation, DirPath(projectRoot),
                <<"Local blueprint installation not found at '", "'. Did you run 'npm install'?">>,
                <<DirPath(REQUIRED_NODE_MODULES_DIR)>>)

MissingPackageJsonError(projectRoot) ==
    LinterError(StructureValidation, DirPath(projectRoot), <<"Missing 'package.json'">>, <<>>)

\* the try/catch of lines 28-46: JSON.parse throwing skips the dependency test
ManifestErrors(projectRoot, f) ==
    IF f.manifest = "bad" THEN <<ParseError(projectRoot)>>
    ELSE IF ~Truthy(AllDepsEntry(f)) THEN <<KeyDependencyError(projectRoot)>>
    ELSE <<>>

ConfigErrors(projectRoot, f) ==
    IF ~f.config THEN <<ConfigError(projectRoot)>> ELSE <<>>

ModuleErrors(projectRoot, f) ==
    IF ~f.module THEN <<ModuleError(projectRoot)>> ELSE <<>>

\* a parse or dependency failure ending the validation
validateStopAtManifestError(projectRoot, f) ==
    IF f.manifest = "none"
    THEN <<MissingPackageJsonError(projectRoot)>>
    ELSE IF ManifestErrors(projectRoot, f) # <<>>
    THEN ManifestErrors(projectRoot, f)
    ELSE ConfigErrors(projectRoot, f) \o ModuleErrors(projectRoot, f)

\* projectRoot is an absolute path
validateProjectStructure(projectRoot, f) ==
    IF f.manifest = "none"
    THEN <<MissingPackageJsonError(projectRoot)>>
    ELSE ManifestErrors(projectRoot, f)
         \o ConfigErrors(projectRoot, f)
         \o ModuleErrors(projectRoot, f)

----------------------------------------------------------------------------
(* Files and the glob facility.  A file of the tree is a record            *)
(*   dir   the segments of its directory, relative to the scan path        *)
(*   stem, ext   its name as path.parse splits it ("A.compile.ts" has the  *)
(*         stem <<"A", ".compile">> and the extension ".ts")               *)
(*   text  what the checks read of its content                             *)

Range(s) == {s[i] : i \in DOMAIN s}

\* the results of a glob call, in the order the walk returns them (the order
\* is fixed for a given tree and not otherwise specified)
SeqOfSet(S) == CHOOSE s \in [1..Cardinality(S) -> S] : Range(s) = S

Markers == {".spec", ".test", ".compile", ".d"}

\* a name glob's '*' does not match (option dot is off)
IsDotName(stem) == stem = <<>> \/ Head(stem) \in {"."} \cup Markers

\* '**' matches neither dot directories nor, with ignore '**/node_modules/**',
\* anything below a node_modules directory
HasDotSegment(segs) == \E i \in 1..Len(segs) : segs[i] \in {".git", ".cursor"}
InNodeModules(segs) == \E i \in 1..Len(segs) : segs[i] = "node_modules"

EndsWithMarker(stem, m) == stem # <<>> /\ stem[Len(stem)] = m

Front(s) == SubSeq(s, 1, Len(s) - 1)

\* What the checks read of a file's content:
\*   readable  readFile succeeds
\*   exported  the name captured by EXPORTED_CLASS_REGEX (<<>>: no match)
\*   kind      "array" (a targets: [...] match), "single" (only a target: '...'
\*             match) or "none"
\*   targets   the target paths the match yields, relative to the project root
Text(readable, exported, kind, targets) ==
    [readable |-> readable, exported |-> exported, kind |-> kind, targets |-> targets]

NoText == Text(TRUE, <<>>, "none", <<>>)

File(dir, stem, ext) == [dir |-> dir, stem |-> stem, ext |-> ext, text |-> NoText]

FileWith(dir, stem, ext, text) == [dir |-> dir, stem |-> stem, ext |-> ext, text |-> text]

PathOf(f) == FilePath(f.dir, f.stem, f.ext)

\* fs.existsSync(path.resolve(projectRoot, target)) in the tree `files`: the
\* target is a file of the tree or a directory that holds one
TargetExists(files, projectRoot, target) ==
    \E f \in files :
        \/ PathOf(f) = [target EXCEPT !.dir = projectRoot \o target.dir]
        \/ /\ target.stem = <<>>
           /\ target.ext = ""
           /\ IsPrefix(projectRoot \o target.dir, f.dir)

----------------------------------------------------------------------------
(* normalizeName.ts: getNormalizedBaseName *)

getNormalizedBaseName(file) ==
    LET base == file.stem
    IN  IF EndsWithMarker(base, ".spec") \/ EndsWithMarker(base, ".test")
        THEN normalizeToSnakeCase(Front(base))
        ELSE normalizeToSnakeCase(base)

----------------------------------------------------------------------------
(* namingConsistency.ts *)

DEFAULT_DIRS == {"contracts", "wrappers", "scripts", "tests"}
CONTRACT_EXTENSIONS == {".tact", ".fc", ".func"}
TS_EXTENSIONS == {".ts"}

\* path.endsWith('.spec.ts') or path.endsWith('.test.ts')
IsTestFile(file) ==
    file.ext = ".ts" /\ (EndsWithMarker(file.stem, ".spec") \/ EndsWithMarker(file.stem, ".test"))

\* glob(projectRoot/<dir>/**/*{.tact,.fc,.func,.ts,.spec.ts,.test.ts},
\*      {nodir, ignore: ['**/node_modules/**']}) for every dir of targetDirs
FindFilesGlob(files, projectRoot, targetDirs) ==
    {f \in files :
        /\ \E d \in targetDirs : IsPrefix(projectRoot \o <<d>>, f.dir)
        /\ f.ext \in CONTRACT_EXTENSIONS \cup TS_EXTENSIONS
        /\ ~IsDotName(f.stem)
        /\ ~HasDotSegment(Below(projectRoot, f.dir))
        /\ ~InNodeModules(f.dir)}

FileInfo(projectRoot, f) ==
    [filePath |-> Relative(projectRoot, FilePath(f.dir, f.stem, f.ext)),
     dir |-> f.dir[Len(f.dir)],
     baseName |-> f.stem,
     normalizedBaseName |-> getNormalizedBaseName(f),
     isContract |-> f.ext \in CONTRACT_EXTENSIONS,
     isTs |-> ~IsTestFile(f) /\ f.ext \in TS_EXTENSIONS,
     isTest |-> IsTestFile(f)]

\* the loop without the skip of declaration files
FindFilesKeepsDeclarations(projectRoot, targetDirs, f) ==
    \E d \in targetDirs : IsPrefix(<<d>>, Below(projectRoot, f.dir))

\* the loop of lines 121-164: declaration files and files outside the target
\* directories are skipped
FindFilesKeeps(projectRoot, targetDirs, f) ==
    /\ ~(f.ext = ".ts" /\ EndsWithMarker(f.stem, ".d"))
    /\ \E d \in targetDirs : IsPrefix(<<d>>, Below(projectRoot, f.dir))

\* new Map(files.map(f => [f.filePath, f])).values(): one entry per path
RECURSIVE DedupeByPath(_)
DedupeByPath(infos) ==
    IF infos = <<>> THEN <<>>
    ELSE LET rest == DedupeByPath(Front(infos))
             last == infos[Len(infos)]
         IN  IF \E i \in 1..Len(rest) : rest[i].filePath = last.filePath
             THEN [i \in 1..Len(rest) |->
                      IF rest[i].filePath = last.filePath THEN last ELSE rest[i]]
             ELSE Append(rest, last)

findFiles(files, projectRoot, targetDirs) ==
    LET globResults == SeqOfSet(FindFilesGlob(files, projectRoot, targetDirs))
        Keep(f) == FindFilesKeeps(projectRoot, targetDirs, f)
        kept == SelectSeq(globResults, Keep)
    IN  DedupeByPath([i \in 1..Len(kept) |-> FileInfo(projectRoot, kept[i])])

NamingError(contract) ==
    LinterError(NamingConsistency, contract.filePath,
                <<"Contract file should use snake_case. Expected: '", "', Actual: '", "'.">>,
                <<FilePath(<<>>, contract.normalizedBaseName, contract.filePath.ext),
                  FilePath(<<>>, contract.baseName, contract.filePath.ext)>>)

RECURSIVE performConsistencyCheck(_)
performConsistencyCheck(contractFiles) ==
    IF contractFiles = <<>> THEN <<>>
    ELSE LET contract == Head(contractFiles)
         IN  (IF contract.baseName # contract.normalizedBaseName
              THEN <<NamingError(contract)>> ELSE <<>>)
             \o performConsistencyCheck(Tail(contractFiles))

checkNamingConsistency(files, projectRoot, targetDirs) ==
    LET IsContract(fi) == fi.isContract
        contractFilesFound == SelectSeq(findFiles(files, projectRoot, targetDirs), IsContract)
    IN  IF contractFilesFound = <<>> THEN <<>>
        ELSE performConsistencyCheck(contractFilesFound)

----------------------------------------------------------------------------
(* duplicateContractNames.ts *)

RECURSIVE RemoveUnderscores(_)
RemoveUnderscores(s) ==
    IF s = <<>> THEN <<>>
    ELSE IF Head(s) = "_" THEN RemoveUnderscores(Tail(s))
    ELSE <<Head(s)>> \o RemoveUnderscores(Tail(s))

\* the key without the removal of underscores
normalizeKeepingUnderscores(f) == ToLowerCase(f.stem)

normalizeContractName(f) == RemoveUnderscores(ToLowerCase(f.stem))

\* glob(projectRoot/contracts/**/*.*, {nodir}): no ignore list
DuplicatesGlob(files, projectRoot) ==
    {f \in files :
        /\ IsPrefix(projectRoot \o <<"contracts">>, f.dir)
        /\ f.ext # ""
        /\ ~IsDotName(f.stem)
        /\ ~HasDotSegment(Below(projectRoot, f.dir))}

\* the keys of normalizedNamesMap in insertion order
RECURSIVE KeysInOrder(_)
KeysInOrder(fs) ==
    IF fs = <<>> THEN <<>>
    ELSE LET rest == KeysInOrder(Front(fs))
             k == normalizeContractName(fs[Len(fs)])
         IN  IF k \in Range(rest) THEN rest ELSE Append(rest, k)

DuplicateError(projectRoot, f, members) ==
    LinterError(NamingConsistency, Relative(projectRoot, PathOf(f)),
                <<"Duplicate filename detected in 'contracts' directory: ",
                  ". Filenames should be unique, ignoring case, underscores, and extensions.">>,
                [i \in 1..Len(members) |-> Relative(projectRoot, PathOf(members[i]))])

RECURSIVE DuplicateGroups(_, _, _)
DuplicateGroups(projectRoot, fs, keys) ==
    IF keys = <<>> THEN <<>>
    ELSE LET HasKey(f) == normalizeContractName(f) = Head(keys)
             filePaths == SelectSeq(fs, HasKey)
         IN  (IF Len(filePaths) > 1
              THEN [i \in 1..Len(filePaths) |-> DuplicateError(projectRoot, filePaths[i], filePaths)]
              ELSE <<>>)
             \o DuplicateGroups(projectRoot, fs, Tail(keys))

lintDuplicateContractNames(files, projectRoot) ==
    LET fs == SeqOfSet(DuplicatesGlob(files, projectRoot))
    IN  DuplicateGroups(projectRoot, fs, KeysInOrder(fs))

----------------------------------------------------------------------------
(* wrapperNamingRule.ts *)

\* /^[A-Z][a-zA-Z0-9]*$/
PASCAL_CASE_REGEX(s) ==
    /\ s # <<>>
    /\ IsUpper(s[1])
    /\ \A i \in 2..Len(s) : s[i] \in AlnumChars

\* glob(<dir>/**/*.ts, {nodir, ignore: ['**/node_modules/**', '**/*.d.ts']})
TsGlob(files, dir) ==
    {f \in files :
        /\ IsPrefix(dir, f.dir)
        /\ f.ext = ".ts"
        /\ ~IsDotName(f.stem)
        /\ ~EndsWithMarker(f.stem, ".d")
        /\ ~HasDotSegment(Below(dir, f.dir))
        /\ ~InNodeModules(f.dir)}

\* the loop body without the `continue` after the format diagnostic
WrapperFileErrorsWithoutContinue(projectRoot, f) ==
    LET relativePath == Relative(projectRoot, PathOf(f))
        isCompileFile == EndsWithMarker(f.stem, ".compile")
        baseName == IF isCompileFile THEN Front(f.stem) ELSE f.stem
    IN  (IF ~PASCAL_CASE_REGEX(baseName)
         THEN <<LinterError(NamingConsistency, relativePath,
                            <<"Wrapper file name part '", "' in '", "' should be in PascalCase.">>,
                            <<FilePath(<<>>, baseName, ""), FilePath(<<>>, f.stem, f.ext)>>)>>
         ELSE <<>>)
        \o
        (IF isCompileFile THEN <<>>
         ELSE IF ~f.text.readable
         THEN <<LinterError(StructureValidation, relativePath,
                            <<"Failed to read wrapper file '", "': ", "readError.message">>,
                            <<FilePath(<<>>, f.stem, f.ext)>>)>>
         ELSE IF f.text.exported # <<>> /\ baseName # f.text.exported
         THEN <<LinterError(NamingConsistency, relativePath,
                            <<"Wrapper filename '", "' (base '", "') does not match the exported class name '", "'.">>,
                            <<FilePath(<<>>, f.stem, f.ext), FilePath(<<>>, baseName, ""),
                              FilePath(<<>>, f.text.exported, "")>>)>>
         ELSE <<>>)

\* the body of the loop of lines 30-88 for one file
WrapperFileErrors(projectRoot, f) ==
    LET relativePath == Relative(projectRoot, PathOf(f))
        isCompileFile == EndsWithMarker(f.stem, ".compile")
        baseName == IF isCompileFile THEN Front(f.stem) ELSE f.stem
    IN  IF ~PASCAL_CASE_REGEX(baseName)
        THEN <<LinterError(NamingConsistency, relativePath,
                           <<"Wrapper file name part '", "' in '", "' should be in PascalCase.">>,
                           <<FilePath(<<>>, baseName, ""), FilePath(<<>>, f.stem, f.ext)>>)>>
        ELSE IF isCompileFile THEN <<>>
        ELSE IF ~f.text.readable
        THEN <<LinterError(StructureValidation, relativePath,
                           <<"Failed to read wrapper file '", "': ", "readError.message">>,
                           <<FilePath(<<>>, f.stem, f.ext)>>)>>
        ELSE IF f.text.exported # <<>> /\ baseName # f.text.exported
        THEN <<LinterError(NamingConsistency, relativePath,
                           <<"Wrapper filename '", "' (base '", "') does not match the exported class name '", "'.">>,
                           <<FilePath(<<>>, f.stem, f.ext), FilePath(<<>>, baseName, ""),
                             FilePath(<<>>, f.text.exported, "")>>)>>
        ELSE <<>>

RECURSIVE WrapperErrors(_, _)
WrapperErrors(projectRoot, fs) ==
    IF fs = <<>> THEN <<>>
    ELSE WrapperFileErrors(projectRoot, Head(fs)) \o WrapperErrors(projectRoot, Tail(fs))

checkWrapperNaming(files, projectRoot) ==
    WrapperErrors(projectRoot, SeqOfSet(TsGlob(files, projectRoot \o <<"wrappers">>)))

----------------------------------------------------------------------------
(* scriptNamingRule.ts *)

\* /^[a-z]\w*$/: underscores accepted after the first letter
LowerCamelOrUnderscore(s) ==
    /\ s # <<>>
    /\ IsLower(s[1])
    /\ \A i \in 2..Len(s) : s[i] \in AlnumChars \cup {"_"}

\* /^[a-z][a-zA-Z0-9]*$/
LOWER_CAMEL_CASE_REGEX(s) ==
    /\ s # <<>>
    /\ IsLower(s[1])
    /\ \A i \in 2..Len(s) : s[i] \in AlnumChars

RECURSIVE ScriptErrors(_, _)
ScriptErrors(projectRoot, fs) ==
    IF fs = <<>> THEN <<>>
    ELSE (IF ~LOWER_CAMEL_CASE_REGEX(Head(fs).stem)
          THEN <<LinterError(NamingConsistency, Relative(projectRoot, PathOf(Head(fs))),
                             <<"Script file name '", "' should be in lowerCamelCase.">>,
                             <<FilePath(<<>>, Head(fs).stem, Head(fs).ext)>>)>>
          ELSE <<>>)
         \o ScriptErrors(projectRoot, Tail(fs))

checkScriptNaming(files, projectRoot) ==
    ScriptErrors(projectRoot, SeqOfSet(TsGlob(files, projectRoot \o <<"scripts">>)))

----------------------------------------------------------------------------
(* contractFilesCheck.ts *)

TactConfigPath == FilePath(<<>>, <<"tact.config">>, ".json")

\* What is read of <projectRoot>/tact.config.json:
\*   state     "none" (no such file), "bad" (read or JSON.parse throws), "ok"
\*   projects  the entries of its projects list: [hasPath, path]
TactConfig(state, projects) == [state |-> state, projects |-> projects]

NoTactConfig == TactConfig("none", <<>>)

RECURSIVE TactProjectErrors(_, _, _)
TactProjectErrors(files, projectRoot, projects) ==
    IF projects = <<>> THEN <<>>
    ELSE (IF Head(projects).hasPath /\ ~TargetExists(files, projectRoot, Head(projects).path)
          THEN <<LinterError(MissingContract, TactConfigPath,
                             <<"Contract file '", "' specified in tact.config.json for project '",
                               "' does not exist">>,
                             <<Head(projects).path>>)>>
          ELSE <<>>)
         \o TactProjectErrors(files, projectRoot, Tail(projects))

\* lines 35-63; the catch reports the absolute path of the file
TactConfigErrors(files, projectRoot, tact) ==
    IF tact.state = "none" THEN <<>>
    ELSE IF tact.state = "bad"
    THEN <<LinterError(StructureValidation,
                       [TactConfigPath EXCEPT !.dir = Abs(projectRoot)],
                       <<"Error reading or parsing tact.config.json: ", "error.message">>, <<>>)>>
    ELSE TactProjectErrors(files, projectRoot, tact.projects)

\* glob('**/*.compile.ts', {cwd: projectRoot, ignore: ['**/node_modules/**']})
CompileGlob(files, projectRoot) ==
    {f \in files :
        /\ IsPrefix(projectRoot, f.dir)
        /\ f.ext = ".ts"
        /\ EndsWithMarker(f.stem, ".compile")
        /\ ~IsDotName(f.stem)
        /\ ~HasDotSegment(Below(projectRoot, f.dir))
        /\ ~InNodeModules(f.dir)}

RECURSIVE TargetErrors(_, _, _, _)
TargetErrors(files, projectRoot, f, targets) ==
    IF targets = <<>> THEN <<>>
    ELSE (IF ~TargetExists(files, projectRoot, Head(targets))
          THEN <<LinterError(MissingContract, Relative(projectRoot, PathOf(f)),
                             <<"Contract file '", "' specified in ",
                               IF f.text.kind = "array" THEN " targets array" ELSE " target field",
                               " does not exist">>,
                             <<Head(targets), Relative(projectRoot, PathOf(f))>>)>>
          ELSE <<>>)
         \o TargetErrors(files, projectRoot, f, Tail(targets))

\* the loop body reading the targets array only
CompileFileErrorsArrayOnly(files, projectRoot, f) ==
    IF ~f.text.readable
    THEN <<LinterError(StructureValidation, Relative(projectRoot, PathOf(f)),
                       <<"Error reading or parsing ", ": ", "error.message">>,
                       <<Relative(projectRoot, PathOf(f))>>)>>
    ELSE IF f.text.kind # "array" THEN <<>>
    ELSE TargetErrors(files, projectRoot, f, f.text.targets)

\* the body of the loop of lines 73-116 for one file
CompileFileErrors(files, projectRoot, f) ==
    IF ~f.text.readable
    THEN <<LinterError(StructureValidation, Relative(projectRoot, PathOf(f)),
                       <<"Error reading or parsing ", ": ", "error.message">>,
                       <<Relative(projectRoot, PathOf(f))>>)>>
    ELSE IF f.text.kind = "none" THEN <<>>
    ELSE TargetErrors(files, projectRoot, f, f.text.targets)

RECURSIVE CompileErrors(_, _, _)
CompileErrors(files, projectRoot, fs) ==
    IF fs = <<>> THEN <<>>
    ELSE CompileFileErrors(files, projectRoot, Head(fs))
         \o CompileErrors(files, projectRoot, Tail(fs))

\* the check returning once tact.config.json has failed to parse
checkStoppingAtTactConfigError(files, projectRoot, tact) ==
    IF tact.state = "bad" THEN TactConfigErrors(files, projectRoot, tact)
    ELSE TactConfigErrors(files, projectRoot, tact)
         \o CompileErrors(files, projectRoot, SeqOfSet(CompileGlob(files, projectRoot)))

checkContractFilesExist(files, projectRoot, tact) ==
    TactConfigErrors(files, projectRoot, tact)
    \o CompileErrors(files, projectRoot, SeqOfSet(CompileGlob(files, projectRoot)))

----------------------------------------------------------------------------
(* rootFolderCheck.ts *)

FORBIDDEN_DIRS == <<"scripts", "script", "contracts", "contract", "tests", "test", "wrappers">>

\* What checkRootFolder reads of the parent of the scan path:
\*   fsRoot     path.dirname(startPath) = startPath
\*   marked     the parent holds one of MARKER_ITEMS
\*   forbidden  the names of FORBIDDEN_DIRS that are directories of the parent
ParentDir == Front(ScanPath)

RECURSIVE ForbiddenErrors(_, _)
ForbiddenErrors(parent, folders) ==
    IF folders = <<>> THEN <<>>
    ELSE (IF Head(folders) \in parent.forbidden
          THEN <<LinterError(StructureValidation, DirPath(ScanPath),
                             <<"Forbidden directory '", Head(folders), "' found in root '",
                               "'. This prevents confusion and ensures contracts are created in the correct location.">>,
                             <<DirPath(ParentDir)>>)>>
          ELSE <<>>)
         \o ForbiddenErrors(parent, Tail(folders))

checkRootFolder(parent) ==
    IF parent.fsRoot THEN <<>>
    ELSE IF ~parent.marked THEN <<>>
    ELSE ForbiddenErrors(parent, FORBIDDEN_DIRS)

\* The checkRootFolder of the second copy of the check in the repository: the
\* forbidden folders found are collected (lines 28-35) and one diagnostic
\* lists them all, followed by the snapshot that generateDirTree renders.
checkRootFolderListing(parent) ==
    IF parent.fsRoot THEN <<>>
    ELSE IF ~parent.marked THEN <<>>
    ELSE LET Found(folder) == folder \in parent.forbidden
             problematicFolders == SelectSeq(FORBIDDEN_DIRS, Found)
         IN  IF problematicFolders = <<>> THEN <<>>
             ELSE <<LinterError(StructureValidation, DirPath(ScanPath),
                                <<"Detected forbidden ",
                                  IF Len(problematicFolders) = 1 THEN "directory" ELSE "directories">>
                                \o problematicFolders
                                \o <<" in root '", "'. This is a ROOT DIRECTORY ISSUE", "fsMap">>,
                                <<DirPath(ParentDir)>>)>>

----------------------------------------------------------------------------
(* Unit specification: normalizeToSnakeCase applied to a string, then to   *)
(* its own result.                                                         *)

MainIdle ==
    /\ opts = [json |-> FALSE, dirs |-> {}]
    /\ world = <<>>
    /\ pc = "idle"
    /\ allErrors = <<>>
    /\ overallSuccess = TRUE
    /\ validProjectRoots = <<>>
    /\ pending = <<>>
    /\ checkedDirs = {}
    /\ projIndex = 1
    /\ ran = {}
    /\ output = <<>>
    /\ exitCode = -1

InitNorm ==
    /\ unit = "norm"
    /\ uIn \in StringsUpTo(NameChars, MaxLen)
    /\ uOut = <<>>
    /\ MainIdle

NormalizeInput ==
    /\ unit = "norm"
    /\ uOut = <<>>
    /\ uOut' = <<normalizeToSnakeCase(uIn)>>
    /\ UNCHANGED <<unit, uIn, mainVars>>

NormalizeAgain ==
    /\ unit = "norm"
    /\ Len(uOut) = 1
    /\ uOut' = Append(uOut, normalizeToSnakeCase(uOut[1]))
    /\ UNCHANGED <<unit, uIn, mainVars>>

NextNorm == NormalizeInput \/ NormalizeAgain

SpecNorm == InitNorm /\ [][NextNorm]_vars

IsAlnumString(s) == \A i \in 1..Len(s) : s[i] \in AlnumChars

\* C9: on a letters/digits string a second application of normalizeToSnakeCase
\* returns the result of the first; the function is total (a result is a
\* string) and the empty string maps to the empty string.
C9_Idempotent ==
    /\ (Len(uOut) >= 1 /\ uIn = <<>>) => uOut[1] = <<>>
    /\ (Len(uOut) >= 1) => uOut[1] \in Seq(NameChars)
    /\ (Len(uOut) = 2 /\ IsAlnumString(uIn)) => uOut[2] = uOut[1]

\* A mixed-case input that gained an underscore has been normalized twice.
C9_Witness ==
    /\ Len(uOut) = 2
    /\ IsAlnumString(uIn)
    /\ \E i \in 1..Len(uIn) : IsUpper(uIn[i])
    /\ \E i \in 1..Len(uOut[1]) : uOut[1][i] = "_"

\* The places of "MyContract"-style boundaries, stated on the input alone.
BoundaryBefore(s, i) ==
    /\ i > 1
    /\ \/ IsLowerOrDigit(s[i - 1]) /\ IsUpper(s[i])
       \/ IsUpper(s[i - 1]) /\ IsUpper(s[i]) /\ i < Len(s) /\ IsLower(s[i + 1])

RECURSIVE ExpectedSnake(_, _)
ExpectedSnake(s, i) ==
    IF i > Len(s) THEN <<>>
    ELSE (IF BoundaryBefore(s, i) THEN <<"_">> ELSE <<>>)
         \o <<CharToLowerCase(s[i])>> \o ExpectedSnake(s, i + 1)

RECURSIVE DocumentedSnake(_, _)
DocumentedSnake(s, i) ==
    IF i > Len(s) THEN <<>>
    ELSE (IF i > 1 /\ IsUpper(s[i]) THEN <<"_">> ELSE <<>>)
         \o <<CharToLowerCase(s[i])>> \o DocumentedSnake(s, i + 1)

\* C11: normalizeToSnakeCase separates every letter of an acronym, as its
\* documentation states (NFTCollection -> n_f_t_collection, MyNFTV2 ->
\* my_n_f_t_v2), while a single capital starts one word (MyNft -> my_nft):
\* on a letters/digits string the result is DocumentedSnake.
C11_AcronymLettersSeparated ==
    (Len(uOut) >= 1 /\ IsAlnumString(uIn)) => uOut[1] = DocumentedSnake(uIn, 1)

----------------------------------------------------------------------------
(* Unit specification: validateProjectStructure applied to one directory.  *)

Dirs == {<<>>, <<"a">>, <<"a", "contracts", "n">>}

InitValidate ==
    /\ unit = "validate"
    /\ uIn \in [root : {Abs(d) : d \in Dirs}, facts : StructureFacts]
    /\ uOut = <<>>
    /\ MainIdle

Validate ==
    /\ unit = "validate"
    /\ uOut = <<>>
    /\ uOut' = <<validateProjectStructure(uIn.root, uIn.facts)>>
    /\ UNCHANGED <<unit, uIn, mainVars>>

NextValidate == Validate

SpecValidate == InitValidate /\ [][NextValidate]_vars

B2N(b) == IF b THEN 1 ELSE 0

\* the required dependency cannot be looked up in the manifest
DependencyCheckFails(f) == f.manifest = "bad" \/ ~Truthy(AllDepsEntry(f))

\* C3 as stated: four independent checks (manifest parses, dependency
\* declared, config file exists, local module exists), one diagnostic per
\* failing check.
C3_OneDiagnosticPerFailingCheck ==
    (Len(uOut) = 1 /\ uIn.facts.manifest # "none") =>
        Len(uOut[1]) = B2N(uIn.facts.manifest = "bad")
                       + B2N(DependencyCheckFails(uIn.facts))
                       + B2N(~uIn.facts.config)
                       + B2N(~uIn.facts.module)

\* C3 amended: the manifest yields at most one diagnostic (the parse error, or
\* else the dependency diagnostic: a manifest that does not parse is never
\* tested for the dependency); the config-file and local-module checks each
\* add their own diagnostic whatever the manifest's outcome, so a pass returns
\* as many diagnostics as there are failing checks among these three, up to 3.
C3_ThreeIndependentChecks ==
    (Len(uOut) = 1 /\ uIn.facts.manifest # "none") =>
        LET r == uOut[1]
            f == uIn.facts
        IN  /\ Len(r) = B2N(DependencyCheckFails(f)) + B2N(~f.config) + B2N(~f.module)
            /\ Cardinality(Range(r)) = Len(r)
            /\ (ParseError(uIn.root) \in Range(r)) <=> (f.manifest = "bad")
            /\ (KeyDependencyError(uIn.root) \in Range(r))
                   <=> (f.manifest = "ok" /\ DependencyCheckFails(f))
            /\ (ConfigError(uIn.root) \in Range(r)) <=> ~f.config
            /\ (ModuleError(uIn.root) \in Range(r)) <=> ~f.module

\* An unparseable manifest with the config file and the local module both
\* missing: three diagnostics in one pass.
C3_Witness ==
    /\ unit = "validate"
    /\ Len(uOut) = 1
    /\ uIn.facts.manifest = "bad"
    /\ ~uIn.facts.config
    /\ ~uIn.facts.module
    /\ Len(uOut[1]) = 3

\* C4: when the manifest parses, the 'Key dependency ... not found' diagnostic
\* is returned exactly when the key REQUIRED_DEP is in neither dependencies
\* nor devDependencies; with the key in either map, the config file and the
\* local module present, nothing is returned.
C4_DependencyDiagnosticIffKeyAbsent ==
    (Len(uOut) = 1 /\ uIn.facts.manifest = "ok") =>
        LET r == uOut[1]
            f == uIn.facts
            keyAbsent == f.dep = "absent" /\ f.devDep = "absent"
        IN  /\ (KeyDependencyError(uIn.root) \in Range(r)) <=> keyAbsent
            /\ (~keyAbsent /\ f.config /\ f.module) => r = <<>>

----------------------------------------------------------------------------
(* Unit specification: checkNamingConsistency applied to a project at      *)
(* <scan path>/a holding one well-named contract and one file whose name,  *)
(* extension and place vary.                                               *)

NamingProjectRoot == <<"a">>

NamingPlaces ==
    {<<<<"a", "contracts">>, ".fc">>,
     <<<<"a", "contracts">>, ".tact">>,
     <<<<"a", "contracts">>, ".func">>,
     <<<<"a", "contracts">>, ".ts">>,
     <<<<"a", "contracts", "sub">>, ".fc">>,
     <<<<"a", "lib">>, ".fc">>,
     <<<<"a", "contracts", "node_modules", "x">>, ".fc">>,
     <<<<"b", "contracts">>, ".fc">>}

NamingStems ==
    {s \o m : s \in StringsUpTo(NameChars, MaxStem), m \in {<<>>, <<".spec">>, <<".test">>}}

WellNamedContract == File(<<"a", "contracts">>, <<"b", "_", "a">>, ".fc")

InitNaming ==
    /\ unit = "naming"
    /\ \E pl \in NamingPlaces, st \in NamingStems, td \in {DEFAULT_DIRS, {"wrappers"}} :
          uIn = [projectRoot |-> NamingProjectRoot,
                 targetDirs |-> td,
                 varied |-> File(pl[1], st, pl[2]),
                 files |-> {WellNamedContract, File(pl[1], st, pl[2])}]
    /\ uOut = <<>>
    /\ MainIdle

CheckNaming ==
    /\ unit = "naming"
    /\ uOut = <<>>
    /\ uOut' = <<checkNamingConsistency(uIn.files, uIn.projectRoot, uIn.targetDirs)>>
    /\ UNCHANGED <<unit, uIn, mainVars>>

NextNaming == CheckNaming

SpecNaming == InitNaming /\ [][NextNaming]_vars

\* f is a file that the walk of the target directories finds
FoundUnderTarget(f) ==
    /\ f \in FindFilesGlob(uIn.files, uIn.projectRoot, uIn.targetDirs)
    /\ FindFilesKeeps(uIn.projectRoot, uIn.targetDirs, f)

\* the diagnostics of result r that are about file f
DiagnosticsFor(r, f) ==
    {i \in DOMAIN r : r[i].file = Relative(uIn.projectRoot, FilePath(f.dir, f.stem, f.ext))}

\* C7: each contract-source file found under a target directory has exactly
\* one NamingConsistency diagnostic if its stem differs from
\* normalizeToSnakeCase(stem), whose expected name is normalizeToSnakeCase(stem)
\* plus the extension, and none if it is equal; no other file has a diagnostic.
C7_OneDiagnosticIffStemDiffers ==
    Len(uOut) = 1 =>
        LET r == uOut[1]
        IN  \A f \in uIn.files :
                IF FoundUnderTarget(f) /\ f.ext \in CONTRACT_EXTENSIONS
                THEN /\ Cardinality(DiagnosticsFor(r, f))
                            = B2N(f.stem # normalizeToSnakeCase(f.stem))
                     /\ \A i \in DiagnosticsFor(r, f) :
                            /\ r[i].type = NamingConsistency
                            /\ r[i].paths[1] = FilePath(<<>>, normalizeToSnakeCase(f.stem), f.ext)
                ELSE DiagnosticsFor(r, f) = {}

\* consists solely of groups of lowercase letters and digits joined by single
\* underscores
IsSnakeCase(stem) ==
    /\ stem # <<>>
    /\ \A i \in 1..Len(stem) : stem[i] \in LowerChars \cup DigitChars \cup {"_"}
    /\ stem[1] # "_"
    /\ stem[Len(stem)] # "_"
    /\ \A i \in 1..(Len(stem) - 1) : ~(stem[i] = "_" /\ stem[i + 1] = "_")

\* C8: a contract-source file found under a target directory has no
\* diagnostic only if its stem is snake_case; every contract file whose stem is
\* not snake_case is reported.
C8_NonSnakeCaseReported ==
    Len(uOut) = 1 =>
        \A f \in uIn.files :
            (FoundUnderTarget(f) /\ f.ext \in CONTRACT_EXTENSIONS /\ ~IsSnakeCase(f.stem))
                => DiagnosticsFor(uOut[1], f) # {}

----------------------------------------------------------------------------
(* Unit specification: lintDuplicateContractNames applied to one project.  *)

DuplicateCandidates ==
    {File(<<"a", "contracts">>, <<"a", "B">>, ".fc"),
     File(<<"a", "contracts">>, <<"a", "_", "b">>, ".tact"),
     File(<<"a", "contracts", "sub">>, <<"A", "B">>, ".fc"),
     File(<<"a", "contracts">>, <<"a", "-", "b">>, ".fc"),
     File(<<"a", "contracts">>, <<"b">>, ".fc"),
     File(<<"a", "contracts">>, <<"a", "b">>, ""),
     File(<<"a", "contracts", "node_modules">>, <<"_", "a", "b">>, ".fc"),
     File(<<"a", "contracts", ".git">>, <<"a", "b">>, ".fc"),
     File(<<"a", "wrappers">>, <<"a", "b">>, ".ts"),
     File(<<"b", "contracts">>, <<"a", "b">>, ".fc")}

InitDuplicates ==
    /\ unit = "duplicates"
    /\ \E fs \in SUBSET DuplicateCandidates :
          uIn = [projectRoot |-> NamingProjectRoot, files |-> fs]
    /\ uOut = <<>>
    /\ MainIdle

CheckDuplicates ==
    /\ unit = "duplicates"
    /\ uOut = <<>>
    /\ uOut' = <<lintDuplicateContractNames(uIn.files, uIn.projectRoot)>>
    /\ UNCHANGED <<unit, uIn, mainVars>>

NextDuplicates == CheckDuplicates

SpecDuplicates == InitDuplicates /\ [][NextDuplicates]_vars

\* the files the pattern contracts/**/*.* selects: names with an extension
\* that are not hidden, in directories of the contracts tree that are not hidden
InContractsTree(f) ==
    /\ IsPrefix(uIn.projectRoot \o <<"contracts">>, f.dir)
    /\ f.ext # ""
    /\ f.stem # <<>> /\ Head(f.stem) # "."
    /\ \A i \in 1..Len(f.dir) : f.dir[i] # ".git"

\* lowercase(stem) with every underscore removed
KeyOf(f) ==
    LET lower == ToLowerCase(f.stem)
        NotUnderscore(c) == c # "_"
    IN  SelectSeq(lower, NotUnderscore)

SameKey(f) == {g \in uIn.files : InContractsTree(g) /\ KeyOf(g) = KeyOf(f)}

RelativeToProject(f) == Relative(uIn.projectRoot, PathOf(f))

----------------------------------------------------------------------------
(* Unit specification: checkWrapperNaming applied to one project that      *)
(* holds a well-named wrapper and one varied .ts file.                     *)

WrapperChars == {"A", "a", "1", "_"}

WrapperBases == StringsUpTo(WrapperChars, MaxStem - 1) \ {<<>>}

WrapperDirs ==
    {<<"a", "wrappers">>, <<"a", "wrappers", "sub">>,
     <<"a", "wrappers", "node_modules">>, <<"a", "scripts">>}

ExportedNames == {<<>>, <<"A">>, <<"A", "a">>, <<"a">>}

WellNamedWrapper ==
    FileWith(<<"a", "wrappers">>, <<"B">>, ".ts", Text(TRUE, <<"B">>, "none", <<>>))

InitWrappers ==
    /\ unit = "wrappers"
    /\ \E base \in WrapperBases, d \in WrapperDirs, compile \in BOOLEAN,
          readable \in BOOLEAN, exported \in ExportedNames :
          LET stem == IF compile THEN Append(base, ".compile") ELSE base
              f == FileWith(d, stem, ".ts", Text(readable, exported, "none", <<>>))
          IN  uIn = [projectRoot |-> NamingProjectRoot,
                     varied |-> f,
                     files |-> {WellNamedWrapper, f}]
    /\ uOut = <<>>
    /\ MainIdle

CheckWrappers ==
    /\ unit = "wrappers"
    /\ uOut = <<>>
    /\ uOut' = <<checkWrapperNaming(uIn.files, uIn.projectRoot)>>
    /\ UNCHANGED <<unit, uIn, mainVars>>

NextWrappers == CheckWrappers

SpecWrappers == InitWrappers /\ [][NextWrappers]_vars

\* starts with a capital and continues with letters and digits only
IsPascalCase(s) ==
    /\ Len(s) >= 1
    /\ s[1] \in UpperChars
    /\ \A i \in 2..Len(s) : s[i] \in LowerChars \cup UpperChars \cup DigitChars

IsCompileVariant(f) == f.stem[Len(f.stem)] = ".compile"

\* the file name minus '.compile.ts' or '.ts'
WrapperBase(f) == IF IsCompileVariant(f) THEN SubSeq(f.stem, 1, Len(f.stem) - 1) ELSE f.stem

\* a .ts file of the wrappers tree outside any dependency cache
IsWrapperFile(f) ==
    /\ IsPrefix(uIn.projectRoot \o <<"wrappers">>, f.dir)
    /\ \A i \in 1..Len(f.dir) : f.dir[i] # "node_modules"

IsFormatDiagnostic(e) ==
    e.type = NamingConsistency /\ e.message[1] = "Wrapper file name part '"

IsMismatchDiagnostic(e) ==
    e.type = NamingConsistency /\ e.message[1] = "Wrapper filename '"

\* C13: a wrapper file gets at most one diagnostic: the format diagnostic if and
\* only if its stem is not PascalCase; the symbol-mismatch diagnostic if and
\* only if the stem is PascalCase, the file is no compile variant, its text is
\* read, an exported class is found and its name differs from the stem; a
\* StructureValidation diagnostic if and only if the read that the symbol
\* check needs fails; none otherwise, and none for a file that is no wrapper.
C13_WrapperAtMostOneDiagnostic ==
    uOut # <<>> =>
        LET errs == uOut[1]
            f == uIn.varied
            base == WrapperBase(f)
            For(g) == {i \in DOMAIN errs : errs[i].file = RelativeToProject(g)}
            symbolChecked == IsPascalCase(base) /\ ~IsCompileVariant(f)
        IN  /\ For(WellNamedWrapper) = {}
            /\ Len(errs) = Cardinality(For(f))
            /\ IF IsWrapperFile(f)
               THEN /\ Cardinality(For(f)) <= 1
                    /\ (\E i \in For(f) : IsFormatDiagnostic(errs[i])) <=> ~IsPascalCase(base)
                    /\ (\E i \in For(f) : IsMismatchDiagnostic(errs[i])) <=>
                          /\ symbolChecked
                          /\ f.text.readable
                          /\ f.text.exported # <<>>
                          /\ f.text.exported # base
                    /\ (\E i \in For(f) : errs[i].type = StructureValidation) <=>
                          (symbolChecked /\ ~f.text.readable)
               ELSE For(f) = {}

\* wrappers/A.ts exporting class Aa: the one diagnostic is the symbol mismatch.
C13_Witness ==
    /\ unit = "wrappers"
    /\ uOut # <<>>
    /\ uIn.varied = FileWith(<<"a", "wrappers">>, <<"A">>, ".ts",
                             Text(TRUE, <<"A", "a">>, "none", <<>>))
    /\ Len(uOut[1]) = 1
    /\ IsMismatchDiagnostic(uOut[1][1])

----------------------------------------------------------------------------
(* Unit specification: checkScriptNaming applied to one project that holds *)
(* a well-named script and one varied file.                                *)

ScriptSuffixes == {"", ".d", ".compile", ".spec"}

ScriptDirs ==
    {<<"a", "scripts">>, <<"a", "scripts", "sub">>,
     <<"a", "scripts", "node_modules">>, <<"a", "wrappers">>}

WellNamedScript == File(<<"a", "scripts">>, <<"b">>, ".ts")

InitScripts ==
    /\ unit = "scripts"
    /\ \E base \in WrapperBases, d \in ScriptDirs, suffix \in ScriptSuffixes,
          ext \in {".ts", ".fc"} :
          LET stem == IF suffix = "" THEN base ELSE Append(base, suffix)
              f == File(d, stem, ext)
          IN  uIn = [projectRoot |-> NamingProjectRoot,
                     varied |-> f,
                     files |-> {WellNamedScript, f}]
    /\ uOut = <<>>
    /\ MainIdle

CheckScripts ==
    /\ unit = "scripts"
    /\ uOut = <<>>
    /\ uOut' = <<checkScriptNaming(uIn.files, uIn.projectRoot)>>
    /\ UNCHANGED <<unit, uIn, mainVars>>

NextScripts == CheckScripts

SpecScripts == InitScripts /\ [][NextScripts]_vars

\* a lowercase first letter followed only by letters and digits
IsLowerCamelCase(s) ==
    /\ Len(s) >= 1
    /\ s[1] \in LowerChars
    /\ \A i \in 2..Len(s) : s[i] \in LowerChars \cup UpperChars \cup DigitChars

\* a .ts file of the scripts tree that is no type declaration and lies outside
\* any dependency cache
IsScriptFile(f) ==
    /\ IsPrefix(uIn.projectRoot \o <<"scripts">>, f.dir)
    /\ f.ext = ".ts"
    /\ f.stem[Len(f.stem)] # ".d"
    /\ \A i \in 1..Len(f.dir) : f.dir[i] # "node_modules"

\* C14: a script file whose stem is not lowerCamelCase gets exactly one
\* NamingConsistency diagnostic; a script file whose stem is lowerCamelCase and
\* a file that is no script file get none.
C14_ScriptOneDiagnosticIffNotLowerCamel ==
    uOut # <<>> =>
        LET errs == uOut[1]
            f == uIn.varied
            For(g) == {i \in DOMAIN errs : errs[i].file = RelativeToProject(g)}
        IN  /\ For(WellNamedScript) = {}
            /\ Len(errs) = Cardinality(For(f))
            /\ \A i \in DOMAIN errs : errs[i].type = NamingConsistency
            /\ Cardinality(For(f)) =
                  IF IsScriptFile(f) /\ ~IsLowerCamelCase(f.stem) THEN 1 ELSE 0

\* scripts/sub/a_.ts: one diagnostic for the underscore in the stem.
C14_Witness ==
    /\ unit = "scripts"
    /\ uOut # <<>>
    /\ uIn.varied = File(<<"a", "scripts", "sub">>, <<"a", "_">>, ".ts")
    /\ Len(uOut[1]) = 1
    /\ uOut[1][1].file = FilePath(<<"scripts", "sub">>, <<"a", "_">>, ".ts")

----------------------------------------------------------------------------
(* Unit specification: checkContractFilesExist applied to one project that *)
(* holds one contract, one varied *.compile.ts file and a varied           *)
(* tact.config.json.                                                       *)

ExistingContract == File(<<"a", "contracts">>, <<"b", "_", "a">>, ".fc")

\* declared paths: the contract, two paths that do not exist, a directory
DeclaredPaths ==
    {FilePath(<<"contracts">>, <<"b", "_", "a">>, ".fc"),
     FilePath(<<"contracts">>, <<"a">>, ".fc"),
     FilePath(<<>>, <<"b">>, ".tact"),
     DirPath(<<"contracts">>)}

MaxTargets == 2

CompileTexts ==
    {Text(r, <<>>, "none", <<>>) : r \in BOOLEAN}
    \cup {Text(TRUE, <<>>, "array", ts) : ts \in StringsUpTo(DeclaredPaths, MaxTargets)}
    \cup {Text(TRUE, <<>>, "single", <<t>>) : t \in DeclaredPaths}

CompileDirs ==
    {<<"a">>, <<"a", "wrappers">>, <<"a", "node_modules", "x">>, <<"b", "wrappers">>}

TactProjects ==
    {[hasPath |-> TRUE, path |-> FilePath(<<"contracts">>, <<"b", "_", "a">>, ".fc")],
     [hasPath |-> TRUE, path |-> FilePath(<<"contracts">>, <<"a">>, ".fc")],
     [hasPath |-> FALSE, path |-> DirPath(<<>>)]}

TactConfigs ==
    {NoTactConfig, TactConfig("bad", <<>>)}
    \cup {TactConfig("ok", ps) : ps \in StringsUpTo(TactProjects, MaxTargets)}

InitContractFiles ==
    /\ unit = "contractFiles"
    /\ \E d \in CompileDirs, text \in CompileTexts, tact \in TactConfigs :
          LET f == FileWith(d, <<"A", ".compile">>, ".ts", text)
          IN  uIn = [projectRoot |-> NamingProjectRoot,
                     varied |-> f,
                     tact |-> tact,
                     files |-> {ExistingContract, f}]
    /\ uOut = <<>>
    /\ MainIdle

CheckContractFiles ==
    /\ unit = "contractFiles"
    /\ uOut = <<>>
    /\ uOut' = <<checkContractFilesExist(uIn.files, uIn.projectRoot, uIn.tact)>>
    /\ UNCHANGED <<unit, uIn, mainVars>>

NextContractFiles == CheckContractFiles

SpecContractFiles == InitContractFiles /\ [][NextContractFiles]_vars

\* what exists below the project root of this unit
ExistsOnDisk(t) ==
    t \in {FilePath(<<"contracts">>, <<"b", "_", "a">>, ".fc"), DirPath(<<"contracts">>)}

\* a *.compile.ts file of the project, outside any dependency cache
IsCompileFileOfProject(f) ==
    /\ IsPrefix(uIn.projectRoot, f.dir)
    /\ \A i \in 1..Len(f.dir) : f.dir[i] # "node_modules"

\* the number of diagnostics due for the compile file of this unit
CompileDiagnosticsDue ==
    LET f == uIn.varied
    IN  IF ~IsCompileFileOfProject(f) THEN 0
        ELSE IF ~f.text.readable THEN 1
        ELSE Cardinality({j \in DOMAIN f.text.targets : ~ExistsOnDisk(f.text.targets[j])})

C16_TactConfigDiagnostics ==
    uOut # <<>> =>
        LET errs == uOut[1]
            tact == uIn.tact
            absolute == [TactConfigPath EXCEPT !.dir = Abs(uIn.projectRoot)]
            AboutTact == {i \in DOMAIN errs : errs[i].file \in {TactConfigPath, absolute}}
            AboutCompile == {i \in DOMAIN errs : errs[i].file = RelativeToProject(uIn.varied)}
            Naming(p) == {i \in AboutTact :
                             errs[i].type = MissingContract /\ errs[i].paths = <<p.path>>}
            Entries(p) == {j \in DOMAIN tact.projects : tact.projects[j] = p}
        IN  /\ tact.state = "none" => AboutTact = {}
            /\ tact.state = "ok" =>
                  /\ \A p \in TactProjects :
                        Cardinality(Naming(p)) =
                            IF p.hasPath /\ ~ExistsOnDisk(p.path)
                            THEN Cardinality(Entries(p)) ELSE 0
                  /\ \A i \in AboutTact : \E p \in TactProjects : i \in Naming(p)
            /\ tact.state = "bad" =>
                  /\ Cardinality(AboutTact) = 1
                  /\ \A i \in AboutTact :
                        errs[i].type = StructureValidation /\ errs[i].file = absolute
            /\ Cardinality(AboutCompile) = CompileDiagnosticsDue
            /\ \A i \in AboutTact : \A j \in AboutCompile : i < j
            /\ Len(errs) = Cardinality(AboutTact) + Cardinality(AboutCompile)

\* tact.config.json does not parse and wrappers/A.compile.ts declares a target
\* that does not exist: the StructureValidation diagnostic of the file, then
\* the MissingContract diagnostic of the compile file.
C16_Witness ==
    /\ unit = "contractFiles"
    /\ uOut # <<>>
    /\ uIn.tact.state = "bad"
    /\ uIn.varied.dir = <<"a", "wrappers">>
    /\ Len(uOut[1]) = 2
    /\ uOut[1][1].type = StructureValidation
    /\ uOut[1][2].type = MissingContract

\* tact.config.json lists a project whose path exists, one whose path does not
\* and the compile file declares nothing: one diagnostic.
C16_WitnessProjects ==
    /\ unit = "contractFiles"
    /\ uOut # <<>>
    /\ uIn.tact.state = "ok"
    /\ Len(uIn.tact.projects) = 2
    /\ uIn.tact.projects[1].hasPath /\ ExistsOnDisk(uIn.tact.projects[1].path)
    /\ uIn.tact.projects[2].hasPath /\ ~ExistsOnDisk(uIn.tact.projects[2].path)
    /\ Len(uOut[1]) = 1
    /\ uOut[1][1].file = TactConfigPath

----------------------------------------------------------------------------
(* Unit specification: checkRootFolder, in each of the two copies of the   *)
(* check that the repository holds, applied to one parent directory.       *)

\* the directory names that the parent of the scan path may hold
ParentDirNames == Range(FORBIDDEN_DIRS) \cup {"wrapper", "src"}

InitRootFolder ==
    /\ unit = "rootFolder"
    /\ uIn \in [fsRoot : BOOLEAN, marked : BOOLEAN, forbidden : SUBSET ParentDirNames]
    /\ uOut = <<>>
    /\ MainIdle

\* src/checks/rootFolderCheck.ts, the module that index.ts imports
CheckRootFolder ==
    /\ unit = "rootFolder"
    /\ uOut = <<>>
    /\ uOut' = <<[copy |-> "rootFolderCheck.ts", errors |-> checkRootFolder(uIn)]>>
    /\ UNCHANGED <<unit, uIn, mainVars>>

CheckRootFolderListing ==
    /\ unit = "rootFolder"
    /\ uOut = <<>>
    /\ uOut' = <<[copy |-> "listing", errors |-> checkRootFolderListing(uIn)]>>
    /\ UNCHANGED <<unit, uIn, mainVars>>

NextRootFolder == CheckRootFolder \/ CheckRootFolderListing

SpecRootFolder == InitRootFolder /\ [][NextRootFolder]_vars

\* the names of the forbidden-directory list that are directories of the parent
ForbiddenFound == uIn.forbidden \cap Range(FORBIDDEN_DIRS)

\* C17: checkRootFolder returns no diagnostic when the scan path is the
\* filesystem root, when the parent holds no marker item or when the parent
\* holds no forbidden directory, and otherwise exactly one StructureValidation
\* diagnostic whose message names every forbidden directory found.
C17_RootFolderAtMostOneDiagnostic ==
    uOut # <<>> =>
        LET errs == uOut[1].errors
        IN  IF uIn.fsRoot \/ ~uIn.marked \/ ForbiddenFound = {}
            THEN errs = <<>>
            ELSE /\ Len(errs) = 1
                 /\ errs[1].type = StructureValidation
                 /\ \A folder \in ForbiddenFound : folder \in Range(errs[1].message)

\* the same statement for the copy that lists the folders in one diagnostic
C17_HoldsForListingCopy ==
    (uOut # <<>> /\ uOut[1].copy = "listing") => C17_RootFolderAtMostOneDiagnostic

\* the set the specification describes: the characteristic directory names and
\* the singular variant of each
CharacteristicAndSingular ==
    {"contracts", "wrappers", "scripts", "tests"} \cup {"contract", "wrapper", "script", "test"}

\* C20: a marked parent (not the filesystem root's) that holds a directory
\* named as a characteristic directory or as the singular variant of one
\* yields a root-folder diagnostic.
C20_SingularVariantsForbidden ==
    (/\ uOut # <<>>
     /\ ~uIn.fsRoot
     /\ uIn.marked
     /\ uIn.forbidden \cap CharacteristicAndSingular # {}) => uOut[1].errors # <<>>

----------------------------------------------------------------------------
(* Unit specification: findFiles applied to one project root, a set of     *)
(* target directories and a tree.                                          *)

FindFilesCandidates ==
    {File(<<"a", "contracts">>, <<"b", "_", "a">>, ".fc"),
     File(<<"a", "contracts", "sub">>, <<"a", "B">>, ".tact"),
     File(<<"a", "contracts">>, <<"A", ".d">>, ".ts"),
     File(<<"a", "contracts", "node_modules", "x">>, <<"a">>, ".fc"),
     File(<<"a", "contracts">>, <<"a">>, ".txt"),
     File(<<"a", "wrappers">>, <<"A">>, ".ts"),
     File(<<"a", "tests">>, <<"A", ".spec">>, ".ts"),
     File(<<"a", "lib">>, <<"a">>, ".fc"),
     File(<<"a">>, <<"a">>, ".fc"),
     File(<<"b", "contracts">>, <<"a">>, ".fc")}

TargetDirsOptions == {DEFAULT_DIRS, {"wrappers"}, {"contracts", "tests"}}

InitFindFiles ==
    /\ unit = "findFiles"
    /\ \E fs \in SUBSET FindFilesCandidates, td \in TargetDirsOptions :
          uIn = [projectRoot |-> NamingProjectRoot, targetDirs |-> td, files |-> fs]
    /\ uOut = <<>>
    /\ MainIdle

FindFiles ==
    /\ unit = "findFiles"
    /\ uOut = <<>>
    /\ uOut' = <<findFiles(uIn.files, uIn.projectRoot, uIn.targetDirs)>>
    /\ UNCHANGED <<unit, uIn, mainVars>>

NextFindFiles == FindFiles

SpecFindFiles == InitFindFiles /\ [][NextFindFiles]_vars

\* C21: every entry that findFiles returns has a relative path of a file of the
\* project whose directory is a target directory or a descendant of one; no
\* entry lies under node_modules or ends in .d.ts; no two entries have the
\* same path.
C21_FindFilesInsideTargetDirs ==
    uOut # <<>> =>
        LET infos == uOut[1]
        IN  /\ \A i \in DOMAIN infos :
                  LET p == infos[i].filePath
                  IN  /\ \E f \in uIn.files :
                            /\ IsPrefix(uIn.projectRoot, f.dir)
                            /\ p = RelativeToProject(f)
                      /\ Len(p.dir) >= 1
                      /\ p.dir[1] \in uIn.targetDirs
                      /\ \A k \in 1..Len(p.dir) : p.dir[k] \notin {"node_modules", "/", ".."}
                      /\ ~(p.ext = ".ts" /\ p.stem[Len(p.stem)] = ".d")
            /\ \A i, j \in DOMAIN infos : infos[i].filePath = infos[j].filePath => i = j

\* Every candidate file is on disk and the default directories are the
\* targets: the four files of contracts, contracts/sub, wrappers and tests are
\* returned, the other six are not.
C21_Witness ==
    /\ unit = "findFiles"
    /\ uOut # <<>>
    /\ uIn.files = FindFilesCandidates
    /\ uIn.targetDirs = DEFAULT_DIRS
    /\ Len(uOut[1]) = 4

----------------------------------------------------------------------------
(* index.ts: the tree that the CLI action scans.                           *)
(*                                                                         *)
(* world.parent is what checkRootFolder reads of the scan path's parent;   *)
(* world.dirs gives, for each directory of Dirs, what discovery and        *)
(* validation read of it (StructureFacts, the characteristic folders that  *)
(* are directories of it, its tact.config.json) and the files below it.    *)

CHARACTERISTIC_FOLDERS == <<"contracts", "wrappers", "scripts", "tests">>

Structure(manifest, dep, devDep, config, module) ==
    [manifest |-> manifest, dep |-> dep, devDep |-> devDep,
     config |-> config, module |-> module]

Content(chars, files, tact) == [chars |-> chars, files |-> files, tact |-> tact]

DirFacts(st, c) ==
    [manifest |-> st.manifest, dep |-> st.dep, devDep |-> st.devDep,
     config |-> st.config, module |-> st.module,
     chars |-> c.chars, files |-> c.files, tact |-> c.tact]

NoManifest == Structure("none", "absent", "absent", FALSE, FALSE)
ValidManifest == Structure("ok", "version", "absent", TRUE, TRUE)

\* the contents a directory d may have
Empty(d) == Content({}, {}, NoTactConfig)

Clean(d) ==
    Content({"contracts"}, {File(d \o <<"contracts">>, <<"b", "_", "a">>, ".fc")}, NoTactConfig)

Misnamed(d) ==
    Content({"contracts"}, {File(d \o <<"contracts">>, <<"a", "B">>, ".fc")}, NoTactConfig)

Duplicate(d) ==
    Content({"contracts"},
            {File(d \o <<"contracts">>, <<"a", "B">>, ".fc"),
             File(d \o <<"contracts">>, <<"a", "_", "b">>, ".tact")},
            TactConfig("bad", <<>>))

Wrapped(d) ==
    Content({"contracts", "wrappers"},
            {File(d \o <<"contracts">>, <<"b", "_", "a">>, ".fc"),
             FileWith(d \o <<"wrappers">>, <<"A", "b">>, ".ts",
                      Text(TRUE, <<"A", "b">>, "none", <<>>)),
             FileWith(d \o <<"wrappers">>, <<"A", "b", ".compile">>, ".ts",
                      Text(TRUE, <<>>, "array",
                           <<FilePath(<<"contracts">>, <<"b", "_", "a">>, ".fc")>>))},
            TactConfig("ok", <<[hasPath |-> TRUE,
                                path |-> FilePath(<<"contracts">>, <<"b", "_", "a">>, ".fc")]>>))

Faulty(d) ==
    Content({"contracts", "wrappers", "scripts"},
            {FileWith(d \o <<"wrappers">>, <<"a", "b">>, ".ts",
                      Text(TRUE, <<"A", "b">>, "none", <<>>)),
             FileWith(d \o <<"wrappers">>, <<"A", "b", ".compile">>, ".ts",
                      Text(TRUE, <<>>, "single",
                           <<FilePath(<<"contracts">>, <<"a">>, ".fc")>>)),
             File(d \o <<"scripts">>, <<"A", "b">>, ".ts")},
            TactConfig("ok", <<[hasPath |-> TRUE,
                                path |-> FilePath(<<"contracts">>, <<"a">>, ".tact")]>>))

Full(d) ==
    Content({"contracts", "wrappers", "scripts", "tests"},
            {File(d \o <<"contracts">>, <<"b", "_", "a">>, ".fc"),
             FileWith(d \o <<"wrappers">>, <<"B">>, ".ts",
                      Text(TRUE, <<"B">>, "none", <<>>)),
             File(d \o <<"scripts">>, <<"a", "B">>, ".ts"),
             File(d \o <<"tests">>, <<"B", ".spec">>, ".ts")},
            NoTactConfig)

DirOptions(d) ==
    {DirFacts(NoManifest, c) : c \in {Empty(d), Clean(d), Misnamed(d), Faulty(d), Full(d)}}
    \cup
    {DirFacts(Structure("bad", "absent", "absent", TRUE, TRUE), Empty(d)),
     DirFacts(Structure("bad", "absent", "absent", FALSE, FALSE), Misnamed(d)),
     DirFacts(Structure("ok", "absent", "absent", TRUE, TRUE), Clean(d)),
     DirFacts(Structure("ok", "empty", "absent", TRUE, TRUE), Empty(d)),
     DirFacts(Structure("ok", "version", "absent", FALSE, TRUE), Misnamed(d)),
     DirFacts(Structure("ok", "version", "absent", TRUE, FALSE), Empty(d)),
     DirFacts(Structure("ok", "absent", "absent", FALSE, FALSE), Faulty(d)),
     DirFacts(Structure("ok", "absent", "version", TRUE, TRUE), Clean(d))}
    \cup
    {DirFacts(ValidManifest, c) :
        c \in {Empty(d), Clean(d), Misnamed(d), Duplicate(d), Wrapped(d), Faulty(d), Full(d)}}

NestedDir == <<"a", "contracts", "n">>

NestedOptions ==
    {DirFacts(NoManifest, Empty(NestedDir)),
     DirFacts(NoManifest, Misnamed(NestedDir)),
     DirFacts(ValidManifest, Misnamed(NestedDir)),
     DirFacts(Structure("bad", "absent", "absent", FALSE, FALSE), Misnamed(NestedDir))}

IsAbsent(facts) == facts.manifest = "none" /\ facts.chars = {}

ParentOptions ==
    {[fsRoot |-> TRUE, marked |-> FALSE, forbidden |-> {}],
     [fsRoot |-> FALSE, marked |-> FALSE, forbidden |-> {"contracts"}],
     [fsRoot |-> FALSE, marked |-> TRUE, forbidden |-> {}],
     [fsRoot |-> FALSE, marked |-> TRUE, forbidden |-> {"contracts", "test"}]}

Tree(r, a, n) ==
    [d \in Dirs |-> IF d = <<>> THEN r ELSE IF d = <<"a">> THEN a ELSE n]

Worlds ==
    {[parent |-> p, dirs |-> Tree(r, a, n)] :
        p \in ParentOptions,
        r \in DirOptions(<<>>),
        a \in DirOptions(<<"a">>),
        n \in NestedOptions}

\* a/contracts/n lies in the contracts folder of a
WellFormed(w) ==
    ~IsAbsent(w.dirs[NestedDir]) => "contracts" \in w.dirs[<<"a">>].chars

AllFiles(w) == UNION {w.dirs[d].files : d \in Dirs}

----------------------------------------------------------------------------
(* index.ts: the CLI action *)

Init ==
    /\ unit = "main"
    /\ uIn = <<>>
    /\ uOut = <<>>
    /\ opts \in [json : BOOLEAN, dirs : {Range(CHARACTERISTIC_FOLDERS), {"wrappers"}}]
    /\ world \in Worlds
    /\ WellFormed(world)
    /\ pc = "rootCheck"
    /\ allErrors = <<>>
    /\ overallSuccess = TRUE
    /\ validProjectRoots = <<>>
    /\ pending = <<>>
    /\ checkedDirs = {}
    /\ projIndex = 1
    /\ ran = {}
    /\ output = <<>>
    /\ exitCode = -1

\* printHumanReadableErrors
HumanReadable(errors) ==
    IF errors = <<>> THEN <<>>
    ELSE <<[stream |-> "stderr", format |-> "text", errors |-> errors]>>

\* console.log(JSON.stringify(allErrors, null, 2))
Json(errors) == <<[stream |-> "stdout", format |-> "json", errors |-> errors]>>

Report(errors) == IF opts.json THEN Json(errors) ELSE HumanReadable(errors)

\* the flag left as it was when diagnostics were appended
SuccessUnchanged(success, errors) == success

\* if (errors.length > 0) { allErrors.push(...errors); overallSuccess = false; }
SuccessAfter(success, errors) == success /\ errors = <<>>

\* lines 129-134
RootFolderCheck ==
    /\ unit = "main"
    /\ pc = "rootCheck"
    /\ LET rootCheckErrors == checkRootFolder(world.parent)
       IN  /\ allErrors' = allErrors \o rootCheckErrors
           /\ overallSuccess' = SuccessAfter(overallSuccess, rootCheckErrors)
    /\ pc' = "discover"
    /\ UNCHANGED <<unit, uIn, uOut, opts, world, validProjectRoots, pending,
                   checkedDirs, projIndex, ran, output, exitCode>>

Discoverable(d) == ~InNodeModules(d) /\ ~HasDotSegment(d)

\* glob('**/package.json'), mapped to the directories
PackageJsonDirs(w) == {d \in Dirs : Discoverable(d) /\ w.dirs[d].manifest # "none"}

\* the glob built from the --dirs value in place of CHARACTERISTIC_FOLDERS
CharacteristicParentsOfDirsOption(w) ==
    {d \in Dirs : Discoverable(d) /\ w.dirs[d].chars \cap opts.dirs # {}}

\* glob('**/{contracts,wrappers,scripts,tests}/'), mapped to the parents
CharacteristicParents(w) == {d \in Dirs : Discoverable(d) /\ w.dirs[d].chars # {}}

\* [...new Set(list)]: the first occurrence of each element, in order
RECURSIVE Unique(_)
Unique(list) ==
    IF list = <<>> THEN <<>>
    ELSE LET rest == Unique(Front(list))
         IN  IF list[Len(list)] \in Range(rest) THEN rest ELSE Append(rest, list[Len(list)])

\* lines 136-140
DiscoverProjects ==
    /\ unit = "main"
    /\ pc = "discover"
    /\ pending' = Unique(SeqOfSet(PackageJsonDirs(world)) \o SeqOfSet(CharacteristicParents(world)))
    /\ pc' = IF pending' = <<>> THEN "validated" ELSE "validate"
    /\ UNCHANGED <<unit, uIn, uOut, opts, world, allErrors, overallSuccess,
                   validProjectRoots, checkedDirs, projIndex, ran, output, exitCode>>

\* every characteristic folder, existing or not
EveryCharacteristicFolder(facts) == CHARACTERISTIC_FOLDERS

\* CHARACTERISTIC_FOLDERS.filter(folder => existsSync && isDirectory)
ExistingFolders(facts) ==
    LET Exists(folder) == folder \in facts.chars
    IN  SelectSeq(CHARACTERISTIC_FOLDERS, Exists)

BrokenProjectError(dir, facts) ==
    LET folders == ExistingFolders(facts)
        relativeDir == RelativeOrDot(ScanPath, DirPath(Abs(dir)))
    IN  LinterError(BrokenProject, relativeDir,
                    <<IF dir = <<>> THEN "Error in top-level directory '.'" ELSE "Error in directory",
                      ": Do not use 'npx blueprint create' to scaffold the entire project. Use 'npm create ton@latest' instead.",
                      "Detected characteristic folders without 'package.json'. Consider removing them:">>,
                    [i \in 1..Len(folders) |-> DirPath(Abs(dir) \o <<folders[i]>>)])

\* validationErrors.forEach(err => err.file = path.relative(scanPath, err.file) || '.')
RelativizeAll(errors) ==
    [i \in 1..Len(errors) |-> [errors[i] EXCEPT !.file = RelativeOrDot(ScanPath, errors[i].file)]]

\* a manifest-bearing directory taken as a project root whatever its validation
VisitResultIgnoringValidation(dir, facts) ==
    IF facts.manifest # "none"
    THEN <<RelativizeAll(validateProjectStructure(Abs(dir), facts)), <<dir>>>>
    ELSE IF facts.chars # {}
    THEN <<<<BrokenProjectError(dir, facts)>>, <<>>>>
    ELSE <<<<>>, <<>>>>

\* one iteration of the loop of lines 143-202; the result is
\* <<errors appended, roots appended>>
VisitResult(dir, facts) ==
    LET packageJsonExists == facts.manifest # "none"
        hasDirectCharacteristicFolders == facts.chars # {}
        isScanPath == Abs(dir) = ScanPath
        validationErrors == validateProjectStructure(Abs(dir), facts)
    IN  IF isScanPath /\ ~packageJsonExists /\ hasDirectCharacteristicFolders
        THEN <<<<BrokenProjectError(dir, facts)>>, <<>>>>
        ELSE IF isScanPath /\ ~packageJsonExists /\ ~hasDirectCharacteristicFolders
        THEN <<<<>>, <<>>>>
        ELSE IF packageJsonExists
        THEN IF validationErrors # <<>>
             THEN <<RelativizeAll(validationErrors), <<>>>>
             ELSE <<<<>>, <<dir>>>>
        ELSE IF hasDirectCharacteristicFolders
        THEN <<<<BrokenProjectError(dir, facts)>>, <<>>>>
        ELSE <<<<>>, <<>>>>

VisitDirectory ==
    /\ unit = "main"
    /\ pc = "validate"
    /\ pending # <<>>
    /\ LET dir == Head(pending)
           res == IF dir \in checkedDirs THEN <<<<>>, <<>>>>
                  ELSE VisitResult(dir, world.dirs[dir])
       IN  /\ checkedDirs' = checkedDirs \cup {dir}
           /\ allErrors' = allErrors \o res[1]
           /\ overallSuccess' = SuccessAfter(overallSuccess, res[1])
           /\ validProjectRoots' = validProjectRoots \o res[2]
    /\ pending' = Tail(pending)
    /\ pc' = IF pending' = <<>> THEN "validated" ELSE "validate"
    /\ UNCHANGED <<unit, uIn, uOut, opts, world, projIndex, ran, output, exitCode>>

\* lines 205-212
EarlyExitFailure ==
    /\ unit = "main"
    /\ pc = "validated"
    /\ validProjectRoots = <<>>
    /\ ~overallSuccess
    /\ output' = output \o Report(allErrors)
    /\ exitCode' = 1
    /\ pc' = "exited"
    /\ UNCHANGED <<unit, uIn, uOut, opts, world, allErrors, overallSuccess,
                   validProjectRoots, pending, checkedDirs, projIndex, ran>>

\* lines 213-215
EarlyExitSuccess ==
    /\ unit = "main"
    /\ pc = "validated"
    /\ validProjectRoots = <<>>
    /\ overallSuccess
    /\ exitCode' = 0
    /\ pc' = "exited"
    /\ UNCHANGED <<unit, uIn, uOut, opts, world, allErrors, overallSuccess,
                   validProjectRoots, pending, checkedDirs, projIndex, ran, output>>

\* errs.forEach(err => err.file = path.join(relativeProjectRoot, err.file))
PrefixAll(projectRoot, errors) ==
    LET relativeProjectRoot == RelativeOrDot(ScanPath, DirPath(Abs(projectRoot))).dir
    IN  [i \in 1..Len(errors) |->
            [errors[i] EXCEPT !.file = Join(relativeProjectRoot, errors[i].file)]]

\* a check whose diagnostics are put in front of the list
RunCheckPrepending(name, at, errors, next) ==
    /\ unit = "main"
    /\ pc \in at
    /\ projIndex <= Len(validProjectRoots)
    /\ LET projectRoot == validProjectRoots[projIndex]
           errs == errors[projIndex]
       IN  /\ ran' = ran \cup {<<name, projectRoot>>}
           /\ allErrors' = PrefixAll(projectRoot, errs) \o allErrors
           /\ overallSuccess' = SuccessAfter(overallSuccess, errs)
    /\ IF next = "naming"
       THEN /\ projIndex' = projIndex + 1
            /\ pc' = IF projIndex' > Len(validProjectRoots) THEN "final" ELSE "naming"
       ELSE /\ projIndex' = projIndex
            /\ pc' = next
    /\ UNCHANGED <<unit, uIn, uOut, opts, world, validProjectRoots, pending,
                   checkedDirs, output, exitCode>>

\* one of the five checks of the try block, lines 221-259
RunCheck(name, at, errors, next) ==
    /\ unit = "main"
    /\ pc \in at
    /\ projIndex <= Len(validProjectRoots)
    /\ LET projectRoot == validProjectRoots[projIndex]
           errs == errors[projIndex]
       IN  /\ ran' = ran \cup {<<name, projectRoot>>}
           /\ allErrors' = allErrors \o PrefixAll(projectRoot, errs)
           /\ overallSuccess' = SuccessAfter(overallSuccess, errs)
    /\ IF next = "naming"
       THEN /\ projIndex' = projIndex + 1
            /\ pc' = IF projIndex' > Len(validProjectRoots) THEN "final" ELSE "naming"
       ELSE /\ projIndex' = projIndex
            /\ pc' = next
    /\ UNCHANGED <<unit, uIn, uOut, opts, world, validProjectRoots, pending,
                   checkedDirs, output, exitCode>>

RunNamingCheck ==
    RunCheck("checkNamingConsistency", {"validated", "naming"},
             [i \in DOMAIN validProjectRoots |->
                 checkNamingConsistency(AllFiles(world), validProjectRoots[i], opts.dirs)],
             "duplicates")

RunDuplicateCheck ==
    RunCheck("lintDuplicateContractNames", {"duplicates"},
             [i \in DOMAIN validProjectRoots |->
                 lintDuplicateContractNames(AllFiles(world), validProjectRoots[i])],
             "wrappers")

RunWrapperCheck ==
    RunCheck("checkWrapperNaming", {"wrappers"},
             [i \in DOMAIN validProjectRoots |->
                 checkWrapperNaming(AllFiles(world), validProjectRoots[i])],
             "scripts")

RunScriptCheck ==
    RunCheck("checkScriptNaming", {"scripts"},
             [i \in DOMAIN validProjectRoots |->
                 checkScriptNaming(AllFiles(world), validProjectRoots[i])],
             "contractFiles")

RunContractFilesCheck ==
    RunCheck("checkContractFilesExist", {"contractFiles"},
             [i \in DOMAIN validProjectRoots |->
                 checkContractFilesExist(AllFiles(world), validProjectRoots[i],
                                         world.dirs[validProjectRoots[i]].tact)],
             "naming")

\* the report written whether or not the run succeeded
FinalExitAlwaysReporting ==
    /\ unit = "main"
    /\ pc = "final"
    /\ output' = output \o Report(allErrors)
    /\ exitCode' = IF ~overallSuccess THEN 1 ELSE 0
    /\ pc' = "exited"
    /\ UNCHANGED <<unit, uIn, uOut, opts, world, allErrors, overallSuccess,
                   validProjectRoots, pending, checkedDirs, projIndex, ran>>

\* lines 271-282
FinalExit ==
    /\ unit = "main"
    /\ pc = "final"
    /\ output' = IF ~overallSuccess THEN output \o Report(allErrors) ELSE output
    /\ exitCode' = IF ~overallSuccess THEN 1 ELSE 0
    /\ pc' = "exited"
    /\ UNCHANGED <<unit, uIn, uOut, opts, world, allErrors, overallSuccess,
                   validProjectRoots, pending, checkedDirs, projIndex, ran>>

Next ==
    \/ RootFolderCheck
    \/ DiscoverProjects
    \/ VisitDirectory
    \/ EarlyExitFailure
    \/ EarlyExitSuccess
    \/ RunNamingCheck
    \/ RunDuplicateCheck
    \/ RunWrapperCheck
    \/ RunScriptCheck
    \/ RunContractFilesCheck
    \/ FinalExit

Spec == Init /\ [][Next]_vars

----------------------------------------------------------------------------
(* Properties of the CLI action *)

\* C1: overallSuccess is false exactly when allErrors is non-empty, at every
\* point of the run, and on both exit paths the exit code is 0 if and only if
\* allErrors is empty and 1 if and only if it is not.
C1_ExitCodeIffDiagnostics ==
    /\ overallSuccess <=> (allErrors = <<>>)
    /\ (pc = "exited") <=> (exitCode # -1)
    /\ pc = "exited" =>
          /\ exitCode \in {0, 1}
          /\ (exitCode = 0) <=> (allErrors = <<>>)
          /\ (exitCode = 1) <=> (Len(allErrors) >= 1)

\* A run that ran the checks of a valid project and exited 1 on the final path
\* with diagnostics that only the per-project checks produced.
C1_Witness ==
    /\ pc = "exited"
    /\ exitCode = 1
    /\ validProjectRoots # <<>>
    /\ \A i \in DOMAIN allErrors : allErrors[i].type \in {NamingConsistency, MissingContract}

PerProjectChecks ==
    {"checkNamingConsistency", "lintDuplicateContractNames", "checkWrapperNaming",
     "checkScriptNaming", "checkContractFilesExist"}

Discovered(w) == PackageJsonDirs(w) \cup CharacteristicParents(w)

HasManifest(w, d) == w.dirs[d].manifest # "none"

StructuralDiagnostics(w, d) == validateProjectStructure(Abs(d), w.dirs[d])

IsValidProject(w, d) ==
    d \in Discovered(w) /\ HasManifest(w, d) /\ StructuralDiagnostics(w, d) = <<>>

\* C2: a check is run with project root d only if d is a discovered directory
\* with a manifest and no structural diagnostic; when the run has exited, all
\* five checks have been run for every such directory; and every structural
\* diagnostic of a discovered manifest-bearing directory is in the report.
C2_ChecksRunIffValid ==
    /\ \A r \in ran : r[1] \in PerProjectChecks /\ IsValidProject(world, r[2])
    /\ pc = "exited" =>
          /\ \A d \in Dirs : IsValidProject(world, d) =>
                 \A c \in PerProjectChecks : <<c, d>> \in ran
          /\ \A d \in Discovered(world) : HasManifest(world, d) =>
                 \A e \in Range(RelativizeAll(StructuralDiagnostics(world, d))) :
                     e \in Range(allErrors)

\* One directory was checked as a project root while another, with a manifest
\* and structural diagnostics, was reported and not checked.
C2_Witness ==
    /\ pc = "exited"
    /\ \E d \in Dirs : \A c \in PerProjectChecks : <<c, d>> \in ran
    /\ \E d \in Discovered(world) :
          /\ HasManifest(world, d)
          /\ Len(StructuralDiagnostics(world, d)) >= 2
          /\ \A c \in PerProjectChecks : <<c, d>> \notin ran

IsBrokenScaffold(w, d) ==
    d \in Discovered(w) /\ ~HasManifest(w, d) /\ w.dirs[d].chars # {}

\* the positions of the BrokenProject diagnostics for directory d
BrokenDiagnostics(d) ==
    {i \in DOMAIN allErrors :
        /\ allErrors[i].type = BrokenProject
        /\ allErrors[i].file = RelativeOrDot(ScanPath, DirPath(Abs(d)))}

\* C5: once visited, a discovered directory without a manifest that directly
\* holds a characteristic subdirectory has exactly one BrokenProject diagnostic,
\* which lists exactly its existing characteristic subdirectories; it has no
\* structural diagnostic and no per-project check is run on it.
C5_BrokenScaffoldOneDiagnostic ==
    \A d \in Dirs :
        (IsBrokenScaffold(world, d) /\ d \in checkedDirs) =>
            /\ Cardinality(BrokenDiagnostics(d)) = 1
            /\ \A i \in BrokenDiagnostics(d) :
                  /\ Range(allErrors[i].paths)
                         = {DirPath(Abs(d) \o <<c>>) : c \in world.dirs[d].chars}
                  /\ Len(allErrors[i].paths) = Cardinality(world.dirs[d].chars)
            /\ \A i \in DOMAIN allErrors :
                  allErrors[i].type = StructureValidation =>
                      allErrors[i].file \notin
                          {RelativeOrDot(ScanPath, DirPath(Abs(d))),
                           RelativeOrDot(ScanPath, FilePath(Abs(d), <<"package">>, ".json"))}
            /\ \A c \in PerProjectChecks : <<c, d>> \notin ran

\* The scan root and a subdirectory are both broken scaffolds, with different
\* characteristic subdirectories, and the run has exited.
C5_Witness ==
    /\ pc = "exited"
    /\ IsBrokenScaffold(world, <<>>)
    /\ IsBrokenScaffold(world, <<"a">>)
    /\ world.dirs[<<>>].chars # world.dirs[<<"a">>].chars
    /\ Cardinality(BrokenDiagnostics(<<>>)) = 1
    /\ Cardinality(BrokenDiagnostics(<<"a">>)) = 1

\* C6: whenever the exit code is 0 nothing has been written; and a run that
\* discovers no candidate directory and whose root-folder check returns
\* nothing exits 0, with and without --json.
C6_ExitZeroWritesNothing ==
    /\ exitCode = 0 => output = <<>>
    /\ (pc = "exited" /\ Discovered(world) = {} /\ checkRootFolder(world.parent) = <<>>)
          => (exitCode = 0 /\ output = <<>>)

\* With --json, a marked parent without forbidden directories and nothing
\* discovered, the run exited 0 without output.
C6_Witness ==
    /\ pc = "exited"
    /\ exitCode = 0
    /\ output = <<>>
    /\ opts.json
    /\ world.parent.marked
    /\ Discovered(world) = {}

\* With --json, a run that checked a valid project and found nothing exited 0
\* without output.
C6_WitnessFinal ==
    /\ pc = "exited"
    /\ exitCode = 0
    /\ output = <<>>
    /\ opts.json
    /\ validProjectRoots # <<>>

\* the diagnostics of the five checks of one valid project, in the order of
\* the guarded sequence, with the project's relative path joined to each file
ProjectDiagnostics(d) ==
    PrefixAll(d, checkNamingConsistency(AllFiles(world), d, opts.dirs))
    \o PrefixAll(d, lintDuplicateContractNames(AllFiles(world), d))
    \o PrefixAll(d, checkWrapperNaming(AllFiles(world), d))
    \o PrefixAll(d, checkScriptNaming(AllFiles(world), d))
    \o PrefixAll(d, checkContractFilesExist(AllFiles(world), d, world.dirs[d].tact))

RECURSIVE AllProjectDiagnostics(_)
AllProjectDiagnostics(roots) ==
    IF roots = <<>> THEN <<>>
    ELSE ProjectDiagnostics(Head(roots)) \o AllProjectDiagnostics(Tail(roots))

\* a structural or broken-scaffold diagnostic of a discovered directory
IsDiscoveryDiagnostic(e) ==
    \E d \in Discovered(world) :
        \/ e \in Range(RelativizeAll(StructuralDiagnostics(world, d)))
        \/ /\ e.type = BrokenProject
           /\ e.file = RelativeOrDot(ScanPath, DirPath(Abs(d)))

\* C18: when the run has exited, the list of diagnostics is the root-folder
\* diagnostics, then discovery diagnostics only, then, project by project in
\* the order of validProjectRoots, the diagnostics of contract naming,
\* duplicate names, wrapper naming, script naming and referenced files; the
\* --json output of a failing run is exactly that list.
C18_DiagnosticsInProducerOrder ==
    pc = "exited" =>
        LET rootPart == checkRootFolder(world.parent)
            projectPart == AllProjectDiagnostics(validProjectRoots)
            n == Len(allErrors)
            first == Len(rootPart)
            last == n - Len(projectPart)
        IN  /\ first <= last
            /\ SubSeq(allErrors, 1, first) = rootPart
            /\ \A i \in (first + 1)..last : IsDiscoveryDiagnostic(allErrors[i])
            /\ SubSeq(allErrors, last + 1, n) = projectPart
            /\ (opts.json /\ exitCode = 1) =>
                  output = <<[stream |-> "stdout", format |-> "json", errors |-> allErrors]>>

\* A --json run with root-folder diagnostics, a discovery diagnostic and two
\* valid projects that each have diagnostics of at least two checks.
C18_Witness ==
    /\ pc = "exited"
    /\ opts.json
    /\ output # <<>>
    /\ checkRootFolder(world.parent) # <<>>
    /\ \E i \in DOMAIN allErrors : IsDiscoveryDiagnostic(allErrors[i])
    /\ Len(validProjectRoots) = 2
    /\ \A k \in 1..2 :
          LET d == validProjectRoots[k]
          IN  /\ checkWrapperNaming(AllFiles(world), d) # <<>>
              /\ checkContractFilesExist(AllFiles(world), d, world.dirs[d].tact) # <<>>

\* the candidate directories of a tree: outside dependency caches and hidden
\* directories, with a manifest or a characteristic subdirectory
CandidateDirs(w) ==
    {d \in Dirs : /\ Discoverable(d)
                  /\ (w.dirs[d].manifest # "none" \/ w.dirs[d].chars # {})}

\* the valid project roots of a tree, in the order the walk finds them
ValidRoots(w) ==
    LET IsValid(d) == IsValidProject(w, d)
    IN  SelectSeq(SeqOfSet(PackageJsonDirs(w)), IsValid)

RECURSIVE DiscoveryDiagnostics(_, _)
DiscoveryDiagnostics(w, dirs) ==
    IF dirs = <<>> THEN <<>>
    ELSE VisitResult(Head(dirs), w.dirs[Head(dirs)])[1] \o DiscoveryDiagnostics(w, Tail(dirs))

\* the diagnostics of the four checks that take no target directories
RECURSIVE OtherProjectDiagnostics(_, _)
OtherProjectDiagnostics(w, roots) ==
    IF roots = <<>> THEN <<>>
    ELSE LET d == Head(roots)
         IN  PrefixAll(d, lintDuplicateContractNames(AllFiles(w), d))
             \o PrefixAll(d, checkWrapperNaming(AllFiles(w), d))
             \o PrefixAll(d, checkScriptNaming(AllFiles(w), d))
             \o PrefixAll(d, checkContractFilesExist(AllFiles(w), d, w.dirs[d].tact))
             \o OtherProjectDiagnostics(w, Tail(roots))

\* a diagnostic of the contract naming-consistency pass
IsNamingPassDiagnostic(e) ==
    e.type = NamingConsistency /\ e.message[1] = "Contract file should use snake_case. Expected: '"

\* C19: when the run has exited, the directories visited, the valid project
\* roots and every diagnostic other than those of the contract
\* naming-consistency pass are determined by the scanned tree alone, whatever
\* the value of --dirs.
C19_DirsAffectsOnlyNamingPass ==
    pc = "exited" =>
        LET IsOther(e) == ~IsNamingPassDiagnostic(e)
            order == Unique(SeqOfSet(PackageJsonDirs(world)) \o SeqOfSet(CandidateDirs(world)))
        IN  /\ checkedDirs = CandidateDirs(world)
            /\ validProjectRoots = ValidRoots(world)
            /\ SelectSeq(allErrors, IsOther) =
                  checkRootFolder(world.parent)
                  \o DiscoveryDiagnostics(world, order)
                  \o OtherProjectDiagnostics(world, ValidRoots(world))

\* With --dirs wrappers a valid project holds a contract that the default
\* directories would report, and a broken scaffold with a contracts folder
\* only is still found; diagnostics of other checks are present.
C19_Witness ==
    /\ pc = "exited"
    /\ opts.dirs = {"wrappers"}
    /\ \E d \in Range(validProjectRoots) :
          /\ checkNamingConsistency(AllFiles(world), d, Range(CHARACTERISTIC_FOLDERS)) # <<>>
          /\ checkNamingConsistency(AllFiles(world), d, opts.dirs) = <<>>
    /\ \E d \in checkedDirs : IsBrokenScaffold(world, d) /\ world.dirs[d].chars = {"contracts"}
    /\ \E i \in DOMAIN allErrors : allErrors[i].type = MissingContract
    /\ \A i \in DOMAIN allErrors : ~IsNamingPassDiagnostic(allErrors[i])

\* the files that the naming-consistency pass scans for project root d, as
\* paths relative to the scan path
ScannedFor(d) ==
    {[fi.filePath EXCEPT !.dir = d \o fi.filePath.dir] :
        fi \in Range(findFiles(AllFiles(world), d, opts.dirs))}

\* C22: no file is scanned by the naming-consistency pass for two different
\* valid project roots of one run.
C22_ScannedByOneProject ==
    \A d1, d2 \in Dirs :
        (/\ d1 # d2
         /\ <<"checkNamingConsistency", d1>> \in ran
         /\ <<"checkNamingConsistency", d2>> \in ran)
        => ScannedFor(d1) \cap ScannedFor(d2) = {}

\* the discovered directories at or above the path p (relative to the scan path)
EnclosingDirs(p) == {d \in Discovered(world) : IsPrefix(d, p.dir)}

\* p lies in a discovered directory that is no valid project, and no valid
\* project lies between that directory and p
InExcludedDirectory(p) ==
    \E d \in EnclosingDirs(p) :
        /\ ~IsValidProject(world, d)
        /\ \A v \in EnclosingDirs(p) : Len(v) <= Len(d)

\* C23: no diagnostic of a per-project check names a file whose nearest
\* discovered directory failed structural validation or is a broken scaffold.
C23_ExcludedDirectoriesUnchecked ==
    \A i \in DOMAIN allErrors :
        allErrors[i].type \in {NamingConsistency, MissingContract}
            => ~InExcludedDirectory(allErrors[i].file)

----------------------------------------------------------------------------
(* index.ts: runs in which a glob call rejects.
   A world of such a run has a third field, faults: the glob calls that
   reject, each with the project root it is made for (the scan path for the
   discovery globs) and the message of the error it rejects with. *)

ErrorMessages == {"EACCES", "EMFILE"}

Fault(call, at, m) == [call |-> call, at |-> at, message |-> m]

FaultPlans ==
    {{}}
    \cup {{Fault("discover", <<>>, m)} : m \in ErrorMessages}
    \cup {{Fault(c, d, m)} : c \in PerProjectChecks, d \in Dirs, m \in ErrorMessages}
    \cup {{Fault("lintDuplicateContractNames", d, "EACCES") : d \in Dirs}}

\* wrappers of which one cannot be read and another exports another class, and
\* compile files of which one cannot be read and another names a missing target
Unreadable(d) ==
    Content({"contracts", "wrappers"},
            {File(d \o <<"contracts">>, <<"b", "_", "a">>, ".fc"),
             FileWith(d \o <<"wrappers">>, <<"A">>, ".ts", Text(FALSE, <<>>, "none", <<>>)),
             FileWith(d \o <<"wrappers">>, <<"B">>, ".ts", Text(TRUE, <<"A">>, "none", <<>>)),
             FileWith(d \o <<"wrappers">>, <<"A", ".compile">>, ".ts",
                      Text(FALSE, <<>>, "none", <<>>)),
             FileWith(d \o <<"wrappers">>, <<"B", ".compile">>, ".ts",
                      Text(TRUE, <<>>, "single", <<FilePath(<<"contracts">>, <<"a">>, ".fc")>>))},
            NoTactConfig)

FaultDirOptions(d) ==
    {DirFacts(NoManifest, Empty(d)), DirFacts(NoManifest, Misnamed(d))}
    \cup
    {DirFacts(ValidManifest, c) :
        c \in {Clean(d), Misnamed(d), Duplicate(d), Faulty(d), Unreadable(d)}}

FaultWorlds ==
    {[parent |-> p, dirs |-> Tree(r, a, n), faults |-> fp] :
        p \in {[fsRoot |-> FALSE, marked |-> TRUE, forbidden |-> {}],
               [fsRoot |-> FALSE, marked |-> TRUE, forbidden |-> {"contracts", "test"}]},
        r \in FaultDirOptions(<<>>),
        a \in FaultDirOptions(<<"a">>),
        n \in {DirFacts(NoManifest, Empty(NestedDir)), DirFacts(ValidManifest, Misnamed(NestedDir))},
        fp \in FaultPlans}

InitFaults ==
    /\ unit = "main"
    /\ uIn = <<>>
    /\ uOut = <<>>
    /\ opts \in [json : BOOLEAN, dirs : {Range(CHARACTERISTIC_FOLDERS)}]
    /\ world \in FaultWorlds
    /\ WellFormed(world)
    /\ pc = "rootCheck"
    /\ allErrors = <<>>
    /\ overallSuccess = TRUE
    /\ validProjectRoots = <<>>
    /\ pending = <<>>
    /\ checkedDirs = {}
    /\ projIndex = 1
    /\ ran = {}
    /\ output = <<>>
    /\ exitCode = -1

Rejections(call, at) == {f \in world.faults : f.call = call /\ f.at = at}

Rejects(call, at) == Rejections(call, at) # {}

\* error.message of the rejection
RejectionMessage(call, at) == (CHOOSE f \in Rejections(call, at) : TRUE).message

\* lines 288-299: console.error(chalk.red(basicError.message)); process.exit(2)
BasicError(m) ==
    LinterError(StructureValidation, DirPath(<<"unknown">>),
                <<"An unexpected error occurred: ", m>>, <<>>)

\* lines 137-138: a discovery glob rejects outside any try, the action's
\* promise rejects and main().catch takes over
DiscoveryRejected ==
    /\ unit = "main"
    /\ pc = "discover"
    /\ Rejects("discover", <<>>)
    /\ output' = output \o <<[stream |-> "stderr", format |-> "message",
                              errors |-> <<BasicError(RejectionMessage("discover", <<>>))>>]>>
    /\ exitCode' = 2
    /\ pc' = "exited"
    /\ UNCHANGED <<unit, uIn, uOut, opts, world, allErrors, overallSuccess,
                   validProjectRoots, pending, checkedDirs, projIndex, ran>>

DiscoveryResolved == ~Rejects("discover", <<>>) /\ DiscoverProjects

\* lines 261-268, the diagnostic pushed by the catch of the per-project loop
UnexpectedError(projectRoot, m) ==
    LET relativeProjectRoot == RelativeOrDot(ScanPath, DirPath(Abs(projectRoot)))
    IN  LinterError(StructureValidation, relativeProjectRoot,
                    <<"Unexpected error during checks in ", ": ", m>>,
                    <<relativeProjectRoot>>)

\* a rejection that no catch of the loop handles
CheckThrowsEscaping(name, at) ==
    /\ unit = "main"
    /\ pc \in at
    /\ projIndex <= Len(validProjectRoots)
    /\ Rejects(name, validProjectRoots[projIndex])
    /\ output' = output \o <<[stream |-> "stderr", format |-> "message",
                              errors |-> <<BasicError(RejectionMessage(name, validProjectRoots[projIndex]))>>]>>
    /\ exitCode' = 2
    /\ pc' = "exited"
    /\ UNCHANGED <<unit, uIn, uOut, opts, world, allErrors, overallSuccess,
                   validProjectRoots, pending, checkedDirs, projIndex, ran>>

\* a catch around the one check, the loop going on with the project's next check
CheckThrowsAndResumes(name, at) ==
    /\ unit = "main"
    /\ pc \in at
    /\ projIndex <= Len(validProjectRoots)
    /\ Rejects(name, validProjectRoots[projIndex])
    /\ LET projectRoot == validProjectRoots[projIndex]
       IN  /\ ran' = ran \cup {<<name, projectRoot>>}
           /\ allErrors' = allErrors
                  \o <<UnexpectedError(projectRoot, RejectionMessage(name, projectRoot))>>
    /\ overallSuccess' = FALSE
    /\ pc' = IF name = "checkNamingConsistency" THEN "duplicates" ELSE "wrappers"
    /\ UNCHANGED <<unit, uIn, uOut, opts, world, validProjectRoots, pending,
                   checkedDirs, projIndex, output, exitCode>>

\* lines 220-268: the awaited check rejects; the catch pushes one diagnostic,
\* clears overallSuccess, and the loop goes on with the next project
CheckThrows(name, at) ==
    /\ unit = "main"
    /\ pc \in at
    /\ projIndex <= Len(validProjectRoots)
    /\ Rejects(name, validProjectRoots[projIndex])
    /\ LET projectRoot == validProjectRoots[projIndex]
       IN  /\ ran' = ran \cup {<<name, projectRoot>>}
           /\ allErrors' = allErrors
                  \o <<UnexpectedError(projectRoot, RejectionMessage(name, projectRoot))>>
    /\ overallSuccess' = FALSE
    /\ projIndex' = projIndex + 1
    /\ pc' = IF projIndex' > Len(validProjectRoots) THEN "final" ELSE "naming"
    /\ UNCHANGED <<unit, uIn, uOut, opts, world, validProjectRoots, pending,
                   checkedDirs, output, exitCode>>

CheckResolves(name) ==
    projIndex <= Len(validProjectRoots) /\ ~Rejects(name, validProjectRoots[projIndex])

\* namingConsistency.ts line 119: the glob of findFiles is awaited outside any try
NamingCheckThrows == CheckThrows("checkNamingConsistency", {"validated", "naming"})

NamingCheckReturns == CheckResolves("checkNamingConsistency") /\ RunNamingCheck

\* duplicateContractNames.ts line 21: the glob is awaited outside any try
DuplicateCheckThrows == CheckThrows("lintDuplicateContractNames", {"duplicates"})

DuplicateCheckReturns == CheckResolves("lintDuplicateContractNames") /\ RunDuplicateCheck

\* wrapperNamingRule.ts lines 89-95; path.join('wrappers', '') is 'wrappers'
WrapperScanError(m) ==
    LinterError(StructureValidation, DirPath(<<"wrappers">>),
                <<"Error scanning wrappers directory: ", m>>, <<>>)

\* scriptNamingRule.ts lines 45-51
ScriptScanError(m) ==
    LinterError(StructureValidation, DirPath(<<"scripts">>),
                <<"Error scanning scripts directory: ", m>>, <<>>)

\* contractFilesCheck.ts lines 117-123
CompileSearchError(projectRoot, m) ==
    LinterError(StructureValidation, DirPath(Abs(projectRoot)),
                <<"Error searching for .compile.ts files: ", m>>, <<>>)

\* checkWrapperNaming, whose try of lines 27-95 encloses the glob
WrapperCheckGuarded ==
    RunCheck("checkWrapperNaming", {"wrappers"},
             [i \in DOMAIN validProjectRoots |->
                 IF Rejects("checkWrapperNaming", validProjectRoots[i])
                 THEN <<WrapperScanError(RejectionMessage("checkWrapperNaming", validProjectRoots[i]))>>
                 ELSE checkWrapperNaming(AllFiles(world), validProjectRoots[i])],
             "scripts")

\* checkScriptNaming, whose try of lines 21-51 encloses the glob
ScriptCheckGuarded ==
    RunCheck("checkScriptNaming", {"scripts"},
             [i \in DOMAIN validProjectRoots |->
                 IF Rejects("checkScriptNaming", validProjectRoots[i])
                 THEN <<ScriptScanError(RejectionMessage("checkScriptNaming", validProjectRoots[i]))>>
                 ELSE checkScriptNaming(AllFiles(world), validProjectRoots[i])],
             "contractFiles")

\* checkContractFilesExist, whose try of lines 66-123 encloses the glob; the
\* diagnostics of tact.config.json are pushed before it
ContractFilesCheckGuarded ==
    RunCheck("checkContractFilesExist", {"contractFiles"},
             [i \in DOMAIN validProjectRoots |->
                 IF Rejects("checkContractFilesExist", validProjectRoots[i])
                 THEN TactConfigErrors(AllFiles(world), validProjectRoots[i],
                                       world.dirs[validProjectRoots[i]].tact)
                      \o <<CompileSearchError(validProjectRoots[i],
                              RejectionMessage("checkContractFilesExist", validProjectRoots[i]))>>
                 ELSE checkContractFilesExist(AllFiles(world), validProjectRoots[i],
                                              world.dirs[validProjectRoots[i]].tact)],
             "naming")

NextFaults ==
    \/ RootFolderCheck
    \/ DiscoveryRejected
    \/ DiscoveryResolved
    \/ VisitDirectory
    \/ EarlyExitFailure
    \/ EarlyExitSuccess
    \/ NamingCheckThrows
    \/ NamingCheckReturns
    \/ DuplicateCheckThrows
    \/ DuplicateCheckReturns
    \/ WrapperCheckGuarded
    \/ ScriptCheckGuarded
    \/ ContractFilesCheckGuarded
    \/ FinalExit

SpecFaults == InitFaults /\ [][NextFaults]_vars

\* the five checks in the order of the loop body
CheckOrder ==
    <<"checkNamingConsistency", "lintDuplicateContractNames", "checkWrapperNaming",
      "checkScriptNaming", "checkContractFilesExist">>

\* the position in CheckOrder of the check of project d whose rejection
\* reaches the guard of the loop, 0 if there is none
ThrowingCheck(d) ==
    IF Rejects(CheckOrder[1], d) THEN 1
    ELSE IF Rejects(CheckOrder[2], d) THEN 2
    ELSE 0

\* a StructureValidation diagnostic for `file` whose message starts with
\* `first` and ends with the message of the original error
FailureReported(file, first, original) ==
    \E i \in DOMAIN allErrors :
        /\ allErrors[i].type = StructureValidation
        /\ allErrors[i].file = file
        /\ allErrors[i].message[1] = first
        /\ allErrors[i].message[Len(allErrors[i].message)] = original

Reported(type, file) ==
    \E i \in DOMAIN allErrors : allErrors[i].type = type /\ allErrors[i].file = file

\* the wrapper files of project d whose class name is looked up in their text
WrappersRead(d) ==
    {f \in AllFiles(world) :
        /\ IsPrefix(d \o <<"wrappers">>, f.dir)
        /\ f.ext = ".ts"
        /\ IsPascalCase(f.stem)}

CompileFilesOf(d) ==
    {f \in AllFiles(world) :
        /\ IsPrefix(d, f.dir)
        /\ f.ext = ".ts"
        /\ Len(f.stem) >= 2
        /\ f.stem[Len(f.stem)] = ".compile"}

ProjectPath(d) == RelativeOrDot(ScanPath, DirPath(Abs(d)))

\* what C24 says of valid project d of a run that has exited
FailuresOfProjectHandled(d) ==
    LET k == ThrowingCheck(d)
        Scan(c) == k = 0 /\ Rejects(c, d)
        Loop(c) == k = 0 /\ ~Rejects(c, d)
    IN  /\ <<CheckOrder[1], d>> \in ran
        /\ k = 0 => \A c \in PerProjectChecks : <<c, d>> \in ran
        /\ k # 0 =>
              /\ FailureReported(ProjectPath(d), "Unexpected error during checks in ",
                                 RejectionMessage(CheckOrder[k], d))
              /\ exitCode = 1
        /\ \A c \in {"checkWrapperNaming", "checkScriptNaming", "checkContractFilesExist"} :
              Scan(c) =>
                  /\ \E i \in DOMAIN allErrors :
                        /\ allErrors[i].type = StructureValidation
                        /\ allErrors[i].message[2] = RejectionMessage(c, d)
                        /\ allErrors[i].message[1] \in
                               {"Error scanning wrappers directory: ",
                                "Error scanning scripts directory: ",
                                "Error searching for .compile.ts files: "}
                  /\ exitCode = 1
        /\ Loop("checkWrapperNaming") =>
              \A f \in WrappersRead(d) :
                  /\ ~f.text.readable =>
                        /\ FailureReported(PathOf(f), "Failed to read wrapper file '",
                                           "readError.message")
                        /\ exitCode = 1
                  /\ (f.text.readable /\ f.text.exported # <<>> /\ f.text.exported # f.stem)
                        => Reported(NamingConsistency, PathOf(f))
        /\ Loop("checkContractFilesExist") =>
              \A f \in CompileFilesOf(d) :
                  /\ ~f.text.readable =>
                        /\ FailureReported(PathOf(f), "Error reading or parsing ", "error.message")
                        /\ exitCode = 1
                  /\ (/\ f.text.readable
                      /\ f.text.kind # "none"
                      /\ \E t \in Range(f.text.targets) : ~TargetExists(AllFiles(world), d, t))
                        => Reported(MissingContract, PathOf(f))

\* C24: a rejection inside the checks of a valid project, or a read failure of
\* one wrapper or compile file, becomes a StructureValidation diagnostic that
\* carries the original message; the checks of every other project and file
\* still run; the run exits 1; it exits 2 only when a discovery glob rejects.
C24_FailuresBecomeDiagnostics ==
    /\ exitCode = 2 => Rejects("discover", <<>>)
    /\ (pc = "exited" /\ exitCode # 2) =>
          \A i \in DOMAIN validProjectRoots : FailuresOfProjectHandled(validProjectRoots[i])

\* A run that exited 1 after a check of one project threw to the guard and all
\* five checks ran on a later project, which holds an unreadable wrapper next to
\* a wrapper that is reported for its class name.
C24_Witness ==
    /\ pc = "exited"
    /\ exitCode = 1
    /\ \E i, j \in DOMAIN validProjectRoots :
          /\ i < j
          /\ ThrowingCheck(validProjectRoots[i]) # 0
          /\ \A c \in PerProjectChecks : <<c, validProjectRoots[j]>> \in ran
          /\ \E f, g \in WrappersRead(validProjectRoots[j]) :
                /\ ~f.text.readable
                /\ g.text.readable
                /\ Reported(StructureValidation, PathOf(f))
                /\ Reported(NamingConsistency, PathOf(g))

\* the positions of the guard's diagnostics for project d
UnexpectedAt(d) ==
    {i \in DOMAIN allErrors :
        /\ allErrors[i].type = StructureValidation
        /\ allErrors[i].message[1] = "Unexpected error during checks in "
        /\ allErrors[i].file = ProjectPath(d)}

\* the loop has left project d behind
Finished(d) ==
    \E i \in DOMAIN validProjectRoots : validProjectRoots[i] = d /\ i < projIndex

NamingDiagnosticsOf(d) ==
    PrefixAll(d, checkNamingConsistency(AllFiles(world), d, opts.dirs))

\* C25: once the loop has left a project in which check k threw to the guard,
\* checks 1..k were called and checks k+1..5 were not, the list holds exactly
\* one 'Unexpected error during checks' diagnostic for the project, and the
\* diagnostics of the checks before k stand right before it; a project in
\* which no check threw has no such diagnostic.
C25_GuardStopsProjectAtThrow ==
    \A d \in Dirs :
        Finished(d) =>
            LET k == ThrowingCheck(d)
                before == IF k = 2 THEN NamingDiagnosticsOf(d) ELSE <<>>
            IN  /\ k = 0 => UnexpectedAt(d) = {}
                /\ k # 0 =>
                      /\ \A j \in 1..k : <<CheckOrder[j], d>> \in ran
                      /\ \A j \in (k + 1)..5 : <<CheckOrder[j], d>> \notin ran
                      /\ Cardinality(UnexpectedAt(d)) = 1
                      /\ \A u \in UnexpectedAt(d) :
                            /\ u > Len(before)
                            /\ SubSeq(allErrors, u - Len(before), u - 1) = before

\* A run that has exited in which the duplicate check of a project threw after
\* its naming check had reported a file.
C25_Witness ==
    /\ pc = "exited"
    /\ \E d \in Dirs :
          /\ Finished(d)
          /\ ThrowingCheck(d) = 2
          /\ NamingDiagnosticsOf(d) # <<>>
          /\ UnexpectedAt(d) # {}

\* p starts at the filesystem root
IsAbsolutePath(p) == p.dir # <<>> /\ p.dir[1] = "/"

\* p holds the segments of the absolute scan path after other segments
JoinedOntoAbsolute(p) ==
    \E i \in 1..Len(p.dir) :
        /\ i + Len(ScanPath) - 2 <= Len(p.dir)
        /\ SubSeq(p.dir, i, i + Len(ScanPath) - 2) = Tail(ScanPath)

\* C26: when the run has exited, the file of every diagnostic of the list is
\* a path relative to the scan path: neither an absolute path nor a relative
\* prefix joined onto an absolute path.
C26_FilesRelativeToScanRoot ==
    pc = "exited" =>
        \A i \in DOMAIN allErrors :
            /\ ~IsAbsolutePath(allErrors[i].file)
            /\ ~JoinedOntoAbsolute(allErrors[i].file)

====
